---- MODULE Spec2Model ----
(***************************************************************************)
(* Model of the tldr newsletter summarizer (ravigahlla/tldr).              *)
(*                                                                         *)
(*   SpecChunk : chunk_text, one loop iteration per step                   *)
(*   SpecSumm  : summarize_text_chunks, one LLM call per step              *)
(*   Spec      : main_process, the orchestrator, calling both, run after   *)
(*               run on one mailbox                                        *)
(*   SpecRace  : several runs of main_process on one mailbox at once       *)
(*   SpecSend  : send_email, one SMTP call per step                        *)
(*   SpecConfig: load_key_from_config_file and load_critical_configs       *)
(*   SpecContent: get_email_content on messages of several parts           *)
(*   SpecFetch : fetch_emails, one IMAP command per step                   *)
(*                                                                         *)
(* Texts are sequences of one-character strings.  The tokenizer is the     *)
(* word tokenizer the repository's tests substitute for tiktoken.          *)
(***************************************************************************)
EXTENDS Integers, Sequences, FiniteSets, TLC

(* ---------------------------------------------------------------------- *)
(* Bounds                                                                  *)
(* ---------------------------------------------------------------------- *)
MaxTextLen == 9
MaxChunkTokens == 4
MaxOverlap == 4
MaxChunks == 3
MaxMsgs == 2
MaxRuns == 2

Alphabet == {"a", " "}
ModelNames == {"gpt-4o", "nonexistent-model"}
KnownModels == {"gpt-4o"}

SeqsUpTo(S, n) == UNION {[1..k -> S] : k \in 0..n}
Texts == SeqsUpTo(Alphabet, MaxTextLen)
MaxTokensValues == (0 - 1)..MaxChunkTokens
OverlapValues == (0 - 1)..MaxOverlap

VARIABLES
    \* chunk_text: arguments, locals, and where the call stands
    text_body, model_name, max_tokens_per_chunk, overlap_tokens,
    tokens, chunks, current_pos, chunk_num, cpc,
    \* summarize_text_chunks: arguments, locals, result, and the requests
    \* the LLM client has received
    summ_chunks, initial_context, cumulative_summary, summ_i, spc,
    summ_result, summ_error, llm_calls,
    \* main_process
    pc, imap_connection, fetched_email_data, idx, uids_to_mark_read,
    outcome, send_calls, mark_calls, logouts, exit_status, steps, halted_by,
    \* the mailbox on the IMAP server, which outlives a run: its messages and
    \* the UIDs flagged \Seen; the number of the current run
    mailbox, seen, run,
    \* two runs of main_process working on the mailbox at the same time
    runs, overlapped,
    \* connect_to_imap: the calls made on the connection object and the
    \* message of the error raised
    imap_calls, connect_error,
    \* send_email: argument, locals, the calls made on the SMTP object, the
    \* exception that left the try block, and how the call ended
    port, smtp, smtp_calls, send_pc, send_caught, send_returned,
    \* the configuration file; load_key_from_config_file: arguments and how
    \* the call ended; load_critical_configs: locals and where it stands
    config_file, key_name, default, is_critical, key_result,
    configs, cfg_k, cfg_pc,
    \* get_email_content: argument and result
    msg, content_result, content_pc,
    \* fetch_emails: the UIDs the search found, the position of the loop over
    \* them, the list built so far, the answers of the server (the search
    \* first), and how the call ended
    email_uids_list, uid_pos, messages_data, fetch_log, fetch_pc

chunkVars == <<text_body, model_name, max_tokens_per_chunk, overlap_tokens,
               tokens, chunks, current_pos, chunk_num, cpc>>

summVars == <<summ_chunks, initial_context, cumulative_summary, summ_i, spc,
              summ_result, summ_error, llm_calls>>

mainVars == <<pc, imap_connection, fetched_email_data, idx, uids_to_mark_read,
              outcome, send_calls, mark_calls, logouts, exit_status, steps,
              halted_by>>

boxVars == <<mailbox, seen, run>>

raceVars == <<runs, overlapped>>

connVars == <<imap_calls, connect_error>>

sendVars == <<port, smtp, smtp_calls, send_pc, send_caught, send_returned>>

cfgVars == <<config_file, key_name, default, is_critical, key_result,
             configs, cfg_k, cfg_pc>>

contentVars == <<msg, content_result, content_pc>>

fetchVars == <<email_uids_list, uid_pos, messages_data, fetch_log, fetch_pc>>

helperVars == <<sendVars, cfgVars, contentVars, fetchVars>>

vars == <<chunkVars, summVars, mainVars, boxVars, raceVars, connVars,
          helperVars>>

(* ---------------------------------------------------------------------- *)
(* Python helpers                                                          *)
(* ---------------------------------------------------------------------- *)
Min(a, b) == IF a <= b THEN a ELSE b

Max(a, b) == IF a >= b THEN a ELSE b

CeilDiv(a, b) == (a + b - 1) \div b

\* lst[a:b] for a list of length n, negative indices counted from the end
PySliceIndex(i, n) == IF i < 0 THEN Max(i + n, 0) ELSE Min(i, n)

PySlice(lst, a, b) ==
    LET lo == PySliceIndex(a, Len(lst))
        hi == PySliceIndex(b, Len(lst))
    IN  IF lo < hi THEN SubSeq(lst, lo + 1, hi) ELSE <<>>

(* ---------------------------------------------------------------------- *)
(* Tokenizer: encode = text.split(), decode = " ".join(tokens)             *)
(* ---------------------------------------------------------------------- *)
RECURSIVE SplitAcc(_, _, _)
SplitAcc(s, cur, acc) ==
    IF s = <<>>
    THEN IF cur = <<>> THEN acc ELSE Append(acc, cur)
    ELSE IF Head(s) = " "
         THEN SplitAcc(Tail(s), <<>>, IF cur = <<>> THEN acc ELSE Append(acc, cur))
         ELSE SplitAcc(Tail(s), Append(cur, Head(s)), acc)

encode(text) == IF text = <<>> THEN <<>> ELSE SplitAcc(text, <<>>, <<>>)

\* "".join(tokens)
RECURSIVE decode_concat(_)
decode_concat(toks) ==
    IF toks = <<>> THEN <<>>
    ELSE toks[1] \o decode_concat(Tail(toks))

RECURSIVE decode(_)
decode(toks) ==
    IF toks = <<>> THEN <<>>
    ELSE IF Len(toks) = 1 THEN toks[1]
    ELSE toks[1] \o <<" ">> \o decode(Tail(toks))

\* variant: an unknown model gets the default encoding
encoding_for_model_default(model) == "ok"

\* tiktoken.encoding_for_model raises KeyError for a model it does not know
encoding_for_model(model) == IF model \in KnownModels THEN "ok" ELSE "KeyError"

count_tokens(text, model) ==
    IF text = <<>> THEN [status |-> "ok", value |-> 0]
    ELSE IF encoding_for_model(model) = "KeyError"
         THEN [status |-> "OpenAITokenizerError", value |-> 0]
         ELSE [status |-> "ok", value |-> Len(encode(text))]

(* ---------------------------------------------------------------------- *)
(* chunk_text                                                              *)
(* ---------------------------------------------------------------------- *)
total_tokens == Len(tokens)

\* variant: "a small fixed amount" of one token whatever the chunk size
fallback_advance_one(max) == 1

\* the advance substituted when overlap_tokens >= max_tokens_per_chunk
fallback_advance(max) == IF max > 1 THEN max \div 2 ELSE 1

\* variants of advance_by with a plausible slip: an off-by-one that skips a
\* token between windows, and an advance that forgets the overlap
advance_by_gap(max, overlap) ==
    IF max - overlap <= 0 THEN fallback_advance(max) ELSE max - overlap + 1

advance_by_no_overlap(max, overlap) ==
    IF max - overlap <= 0 THEN fallback_advance(max) ELSE max

\* variant: the next window starts one chunk size less twice the overlap on
advance_by_overlap_twice(max, overlap) ==
    IF max - overlap <= 0 THEN fallback_advance(max)
    ELSE Max(max - 2 * overlap, 1)

advance_by(max, overlap) ==
    IF max - overlap <= 0 THEN fallback_advance(max) ELSE max - overlap

\* variant: window one token too long
end_pos_long(pos, max, total) == Min(pos + max + 1, total)

end_pos(pos, max, total) == Min(pos + max, total)

\* chunk_tokens = tokens[current_pos:end_pos]; chunks.append(decode(chunk_tokens))
MakeChunk(toks, pos, max) ==
    LET e == end_pos(pos, max, Len(toks))
        chunk_tokens == PySlice(toks, pos, e)
    IN  [start |-> pos, end |-> e, chunk_tokens |-> chunk_tokens,
         text |-> decode(chunk_tokens)]

\* variant of the loop body without `if end_pos == total_tokens: break`
LoopBody_no_break(toks, max, overlap, pos, chs) ==
    LET c == MakeChunk(toks, pos, max)
        next == pos + advance_by(max, overlap)
    IN  [chunks |-> Append(chs, c), current_pos |-> next,
         more |-> next < Len(toks)]

\* one pass through the body of `while current_pos < total_tokens`
LoopBody(toks, max, overlap, pos, chs) ==
    LET c == MakeChunk(toks, pos, max)
        appended == Append(chs, c)
    IN  IF c.end = Len(toks)
        THEN [chunks |-> appended, current_pos |-> pos, more |-> FALSE]
        ELSE LET next == pos + advance_by(max, overlap)
             IN  [chunks |-> appended, current_pos |-> next,
                  more |-> next < Len(toks)]

\* lines 91-93 with the single chunk rebuilt from the tokens
EntryResult_decoded(text, model, max) ==
    IF text = <<>>
    THEN [cpc |-> "returned", tokens |-> <<>>, chunks |-> <<>>]
    ELSE IF encoding_for_model(model) = "KeyError"
    THEN [cpc |-> "OpenAITokenizerError", tokens |-> <<>>, chunks |-> <<>>]
    ELSE LET toks == encode(text)
         IN  IF Len(toks) = 0
             THEN [cpc |-> "returned", tokens |-> toks, chunks |-> <<>>]
             ELSE IF Len(toks) <= max
             THEN [cpc |-> "returned", tokens |-> toks,
                   chunks |-> <<[start |-> 0, end |-> Len(toks),
                                 chunk_tokens |-> toks,
                                 text |-> decode(toks)]>>]
             ELSE [cpc |-> "loop", tokens |-> toks, chunks |-> <<>>]

\* variant: the encoding is looked up before the empty text is tested
EntryResult_lookup_first(text, model, max) ==
    IF encoding_for_model(model) = "KeyError"
    THEN [cpc |-> "OpenAITokenizerError", tokens |-> <<>>, chunks |-> <<>>]
    ELSE IF text = <<>>
    THEN [cpc |-> "returned", tokens |-> <<>>, chunks |-> <<>>]
    ELSE LET toks == encode(text)
         IN  IF Len(toks) = 0
             THEN [cpc |-> "returned", tokens |-> toks, chunks |-> <<>>]
             ELSE IF Len(toks) <= max
             THEN [cpc |-> "returned", tokens |-> toks,
                   chunks |-> <<[start |-> 0, end |-> Len(toks),
                                 chunk_tokens |-> toks, text |-> text]>>]
             ELSE [cpc |-> "loop", tokens |-> toks, chunks |-> <<>>]

\* lines 71-93: the returns and the raise that come before the loop
EntryResult(text, model, max) ==
    IF text = <<>>
    THEN [cpc |-> "returned", tokens |-> <<>>, chunks |-> <<>>]
    ELSE IF encoding_for_model(model) = "KeyError"
    THEN [cpc |-> "OpenAITokenizerError", tokens |-> <<>>, chunks |-> <<>>]
    ELSE LET toks == encode(text)
         IN  IF Len(toks) = 0
             THEN [cpc |-> "returned", tokens |-> toks, chunks |-> <<>>]
             ELSE IF Len(toks) <= max
             THEN [cpc |-> "returned", tokens |-> toks,
                   chunks |-> <<[start |-> 0, end |-> Len(toks),
                                 chunk_tokens |-> toks, text |-> text]>>]
             ELSE [cpc |-> "loop", tokens |-> toks, chunks |-> <<>>]

ChunkEntry ==
    /\ cpc = "call"
    /\ LET r == EntryResult(text_body, model_name, max_tokens_per_chunk)
       IN  /\ cpc' = r.cpc
           /\ tokens' = r.tokens
           /\ chunks' = r.chunks
    /\ chunk_num' = 1
    /\ current_pos' = 0
    /\ UNCHANGED <<text_body, model_name, max_tokens_per_chunk, overlap_tokens>>
    /\ UNCHANGED <<summVars, mainVars, boxVars, raceVars, connVars, helperVars>>

\* lines 98-120: one iteration of the while loop
ChunkIterate ==
    /\ cpc = "loop"
    /\ LET r == LoopBody(tokens, max_tokens_per_chunk, overlap_tokens,
                         current_pos, chunks)
       IN  /\ chunks' = r.chunks
           /\ current_pos' = r.current_pos
           /\ chunk_num' = IF r.chunks[Len(r.chunks)].end = total_tokens
                           THEN chunk_num ELSE chunk_num + 1
           /\ cpc' = IF r.more THEN "loop" ELSE "returned"
    /\ UNCHANGED <<text_body, model_name, max_tokens_per_chunk, overlap_tokens,
                   tokens>>
    /\ UNCHANGED <<summVars, mainVars, boxVars, raceVars, connVars, helperVars>>

\* the whole while loop, from a loop state to the return
RECURSIVE RunLoop(_, _, _, _, _, _)
RunLoop(toks, max, overlap, pos, chs, num) ==
    LET r == LoopBody(toks, max, overlap, pos, chs)
    IN  IF r.more
        THEN RunLoop(toks, max, overlap, r.current_pos, r.chunks, num + 1)
        ELSE [cpc |-> "returned", tokens |-> toks, chunks |-> r.chunks,
              current_pos |-> r.current_pos,
              chunk_num |-> IF r.chunks[Len(r.chunks)].end = Len(toks)
                            THEN num ELSE num + 1]

\* chunk_text as one call: its final locals and how it ended
chunk_text(text, model, max, overlap) ==
    LET e == EntryResult(text, model, max)
    IN  IF e.cpc = "loop"
        THEN RunLoop(e.tokens, max, overlap, 0, <<>>, 1)
        ELSE [cpc |-> e.cpc, tokens |-> e.tokens, chunks |-> e.chunks,
              current_pos |-> 0, chunk_num |-> 1]

(* ---------------------------------------------------------------------- *)
(* summarize_text_chunks                                                   *)
(* ---------------------------------------------------------------------- *)
IsSpace(c) == c = " "

\* str.strip(): leading and trailing whitespace removed
RECURSIVE lstrip(_)
lstrip(s) == IF s # <<>> /\ IsSpace(Head(s)) THEN lstrip(Tail(s)) ELSE s

RECURSIVE rstrip(_)
rstrip(s) ==
    IF s # <<>> /\ IsSpace(s[Len(s)]) THEN rstrip(SubSeq(s, 1, Len(s) - 1)) ELSE s

strip(s) == rstrip(lstrip(s))

delimiter == <<"#", "#", "#", "#">>

\* load_key_from_config_file('prompt_focus', default="")
prompt_focus == <<>>

\* the f-string of lines 171-182; the fixed instruction text is kept as
\* whole pieces, the interpolated values character by character
current_user_prompt(summary, chunk) ==
    <<"Summarize the text delimited using the following identifier: ">>
    \o delimiter
    \o <<"Return the summary in HTML formatting. [sections] ">>
    \o prompt_focus
    \o <<"If the following background context delimited by ">>
    \o delimiter
    \o <<" isn't empty, include this information. Background context: ">>
    \o delimiter \o summary \o delimiter
    \o <<"Original text for this chunk: ">>
    \o delimiter \o chunk \o delimiter

\* what client.chat.completions.create can do: return a completion with some
\* content, or raise
LLMContents == {<<>>, <<" ">>, <<"A">>, <<" ", "B">>}

APIErrorKinds == {"APIConnectionError", "RateLimitError", "AuthenticationError",
                  "BadRequestError", "APIError"}

LLMFailures == APIErrorKinds \cup {"Exception", "KeyboardInterrupt"}

\* e.body of an openai error: the decoded JSON object of the error response,
\* or the raw response text when that is not a JSON object
ErrorBodies(kind) ==
    IF kind = "BadRequestError" THEN {"mapping", "text"}
    ELSE IF kind \in APIErrorKinds THEN {"mapping"}
    ELSE {"none"}

LLMOutcomes ==
    {[kind |-> "content", content |-> c, body |-> "none"] : c \in LLMContents}
    \cup UNION {{[kind |-> k, content |-> <<>>, body |-> b] :
                    b \in ErrorBodies(k)} : k \in LLMFailures}

\* the outcomes drawn when summarize_text_chunks is called by main_process:
\* a response that is empty once stripped, one that is not, and every failure
RunLLMOutcomes ==
    {o \in LLMOutcomes : o.kind = "content" => o.content \in {<<" ">>, <<" ", "B">>}}

\* the except clauses of lines 212-238: what summarize_text_chunks raises
llm_error_raised(kind) ==
    IF kind \in APIErrorKinds THEN "OpenAIAPIError"
    ELSE IF kind = "KeyboardInterrupt" THEN "KeyboardInterrupt"
    ELSE "OpenAIError"

\* lines 226-227: error_body is e.body when that is truthy, else {}; .get is
\* then called on it, which only a mapping has
error_message(body) == IF body = "text" THEN "AttributeError" ELSE "ok"

\* what leaves summarize_text_chunks when the call raised: an exception
\* raised inside the BadRequestError clause is not caught by the clauses
\* that follow it
handler_raised(llm) ==
    IF llm.kind = "BadRequestError" /\ error_message(llm.body) # "ok"
    THEN error_message(llm.body)
    ELSE llm_error_raised(llm.kind)

\* variant: the new chunk summary is appended to the running summary
update_summary_append(summary, chunk_summary) ==
    IF chunk_summary = <<>> THEN summary ELSE summary \o chunk_summary

\* variant: the stripped response is stored whether it is empty or not
update_summary_always(summary, chunk_summary) == chunk_summary

\* lines 202-206
update_summary(summary, chunk_summary) ==
    IF chunk_summary = <<>> THEN summary ELSE chunk_summary

\* variant: a failed call is logged and the loop goes on to the next chunk
summ_step_skip_failed(summary, i, n, llm) ==
    LET new == IF llm.kind = "content"
               THEN update_summary(summary, strip(llm.content)) ELSE summary
    IN  [cumulative_summary |-> new, i |-> i + 1,
         spc |-> IF i + 1 = n THEN "returned" ELSE "loop",
         result |-> IF i + 1 = n THEN <<new>> ELSE <<>>,
         error |-> "none"]

\* variant: the loop steps over every other chunk
summ_step_skip_chunk(summary, i, n, llm) ==
    IF llm.kind = "content"
    THEN LET new == update_summary(summary, strip(llm.content))
         IN  [cumulative_summary |-> new, i |-> Min(i + 2, n),
              spc |-> IF i + 2 >= n THEN "returned" ELSE "loop",
              result |-> IF i + 2 >= n THEN <<new>> ELSE <<>>,
              error |-> "none"]
    ELSE [cumulative_summary |-> summary, i |-> i,
          spc |-> "raised", result |-> <<>>,
          error |-> handler_raised(llm)]

\* one iteration of `for i, chunk in enumerate(chunks)` after the call has
\* come back with llm; the return of line 241 follows the last iteration
summ_step(summary, i, n, llm) ==
    IF llm.kind = "content"
    THEN LET chunk_summary == strip(llm.content)
             new == update_summary(summary, chunk_summary)
         IN  [cumulative_summary |-> new, i |-> i + 1,
              spc |-> IF i + 1 = n THEN "returned" ELSE "loop",
              result |-> IF i + 1 = n THEN <<new>> ELSE <<>>,
              error |-> "none"]
    ELSE [cumulative_summary |-> summary, i |-> i,
          spc |-> "raised", result |-> <<>>,
          error |-> handler_raised(llm)]

\* variant: no chunks, so nothing to report
no_chunks_return_empty(context) == <<>>

\* line 144: initial_context or ""
no_chunks_return(context) == IF context = <<>> THEN <<>> ELSE context

\* lines 142-147
SummEntry ==
    /\ spc = "call"
    /\ IF summ_chunks = <<>>
       THEN /\ spc' = "returned"
            /\ summ_result' = <<no_chunks_return(initial_context)>>
            /\ UNCHANGED cumulative_summary
       ELSE /\ spc' = "loop"
            /\ cumulative_summary' = initial_context
            /\ UNCHANGED summ_result
    /\ summ_i' = 0
    /\ UNCHANGED <<summ_chunks, initial_context, summ_error, llm_calls>>
    /\ UNCHANGED <<chunkVars, mainVars, boxVars, raceVars, connVars, helperVars>>

\* lines 149-238: the request for chunk i is sent and llm comes back
LLMCall == \E llm \in (IF pc = "off" THEN LLMOutcomes ELSE RunLLMOutcomes) :
    /\ spc = "loop"
    /\ llm_calls' = Append(llm_calls,
           [msg |-> idx, chunk_no |-> summ_i + 1,
            user_prompt |-> current_user_prompt(cumulative_summary,
                                                summ_chunks[summ_i + 1]),
            llm |-> llm])
    /\ LET r == summ_step(cumulative_summary, summ_i, Len(summ_chunks), llm)
       IN  /\ cumulative_summary' = r.cumulative_summary
           /\ summ_i' = r.i
           /\ spc' = r.spc
           /\ summ_result' = r.result
           /\ summ_error' = r.error
    /\ UNCHANGED <<summ_chunks, initial_context>>
    /\ UNCHANGED <<chunkVars, mainVars, boxVars, raceVars, connVars, helperVars>>

(* ---------------------------------------------------------------------- *)
(* main_process                                                            *)
(* ---------------------------------------------------------------------- *)
DEFAULT_MAX_TOKENS_PER_CHUNK == 4000
DEFAULT_CHUNK_OVERLAP_TOKENS == 200

\* what the .config file can set for the chunker
ConfigMaxTokens == {1, DEFAULT_MAX_TOKENS_PER_CHUNK}

\* a fetched message: its UID and its text part, if it has one
MessageKinds == {[has_text |-> FALSE, payload |-> <<>>],
                 [has_text |-> TRUE, payload |-> <<" ", "a">>],
                 [has_text |-> TRUE, payload |-> <<"a", " ", "a">>]}

FetchResults ==
    UNION {{[i \in 1..n |-> [uid |-> i, has_text |-> k[i].has_text,
                             payload |-> k[i].payload]] :
                k \in [1..n -> MessageKinds]} : n \in 0..MaxMsgs}

\* what get_email_content returns: None, or a text
NoBody == [none |-> TRUE, text |-> <<>>]

Body(t) == [none |-> FALSE, text |-> t]

\* part.get_payload(decode=True).decode(...) inside its try (lines 200-211)
decode_part(part) == IF part.decodable THEN Body(part.payload) ELSE NoBody

\* lines 194-211 of tldr_email_helper.py: the walk over the parts of a
\* multipart message, from part i on
RECURSIVE walk(_, _, _, _)
walk(parts, i, body_plain, body_html) ==
    IF i > Len(parts)
    THEN [body_plain |-> body_plain, body_html |-> body_html]
    ELSE LET part == parts[i]
         IN  IF part.attachment THEN walk(parts, i + 1, body_plain, body_html)
             ELSE IF part.content_type = "text/plain" /\ body_plain.none
             THEN walk(parts, i + 1, decode_part(part), body_html)
             ELSE IF part.content_type = "text/html" /\ body_html.none
             THEN walk(parts, i + 1, body_plain, decode_part(part))
             ELSE walk(parts, i + 1, body_plain, body_html)

\* lines 212-224: a message that is not multipart is its own only part, and
\* its Content-Disposition is not looked at
single_part(part) ==
    [body_plain |-> IF part.content_type = "text/plain"
                    THEN decode_part(part) ELSE NoBody,
     body_html |-> IF part.content_type = "text/html"
                   THEN decode_part(part) ELSE NoBody]

\* `if body_plain:` is false for None and for the empty string
truthy(body) == ~body.none /\ body.text # <<>>

\* variant: the HTML body is looked at first
choose_body_html_first(body_plain, body_html) ==
    IF truthy(body_html) THEN Body(strip(body_html.text))
    ELSE IF truthy(body_plain) THEN Body(strip(body_plain.text))
    ELSE NoBody

\* lines 226-237
choose_body(body_plain, body_html) ==
    IF truthy(body_plain) THEN Body(strip(body_plain.text))
    ELSE IF truthy(body_html) THEN Body(strip(body_html.text))
    ELSE NoBody

\* get_email_content, lines 185-237, on a message given by its parts
message_content(message) ==
    LET found == IF message.multipart
                 THEN walk(message.parts, 1, NoBody, NoBody)
                 ELSE single_part(message.parts[1])
    IN  choose_body(found.body_plain, found.body_html)

\* get_email_content on a fetched message, which has one part: the text
\* that main_process goes on with, empty when None was returned
get_email_content(m) ==
    message_content(
        [multipart |-> FALSE,
         parts |-> <<[content_type |-> IF m.has_text THEN "text/plain"
                                       ELSE "image/png",
                      attachment |-> FALSE, decodable |-> TRUE,
                      payload |-> m.payload]>>]).text

\* variant: the OpenAI API errors are not caught per message
message_handler_api_fatal(exc) ==
    IF exc \in {"OpenAITokenizerError", "OpenAIError",
                "EmailSendingError", "AttributeError", "Exception"}
    THEN "skip" ELSE "propagate"

\* the except clauses of lines 191-200: every Exception is logged and the
\* loop goes on; anything else leaves the loop
message_handler(exc) ==
    IF exc \in {"OpenAITokenizerError", "OpenAIAPIError", "OpenAIError",
                "EmailSendingError", "AttributeError", "Exception"}
    THEN "skip" ELSE "propagate"

\* variant: the UID is queued for marking whatever send_email returned
after_send_always(uids, uid, send_success) == Append(uids, uid)

\* lines 185-189
after_send(uids, uid, send_success) ==
    IF send_success THEN Append(uids, uid) ELSE uids

\* the local fetched_email_data: unbound until fetch_emails has returned
Unbound == [bound |-> FALSE, value |-> <<>>]

Fetched == fetched_email_data.value

SetOutcome(o) == outcome' = [outcome EXCEPT ![idx] = o]

\* one entry of the record of what the run did with a message
Step(kind) == [step |-> kind, uid |-> Fetched[idx].uid]

\* variant: the search does not look at the \Seen flag
search_all(box, flagged) == box

\* uid('search', None, '(UNSEEN FROM ...)'): the messages not flagged \Seen
search_unseen(box, flagged) == SelectSeq(box, LAMBDA m : m.uid \notin flagged)

\* variant: every message found is appended twice
fetched_messages_doubled(found, failed) ==
    SelectSeq(found, LAMBDA m : m.uid \notin failed)
        \o SelectSeq(found, LAMBDA m : m.uid \notin failed)

\* the loop over the UIDs found (lines 121-133): a UID whose fetch is not OK,
\* or whose response holds no message literal, is left out; the others are
\* appended in search order, the one literal of a single-UID RFC822 fetch
\* giving one pair
fetched_messages(found, failed) ==
    SelectSeq(found, LAMBDA m : m.uid \notin failed)

UidsOf(msgs) == {msgs[i].uid : i \in 1..Len(msgs)}

\* variant: the summary is sent whatever it holds
summary_missing_never(summary_html) == FALSE

\* line 164: if not summary_html
summary_missing(summary_html) == summary_html = <<>>

\* lines 54-83 and 216-218, 232-235: load_critical_configs raises ConfigError,
\* int() of a configured value raises ValueError
LoadConfig ==
    /\ pc = "load_config"
    /\ \E r \in {"ok", "ConfigError", "Exception"} :
          IF r = "ok"
          THEN pc' = "init_openai" /\ UNCHANGED <<exit_status, halted_by>>
          ELSE pc' = "finally" /\ exit_status' = "exit1" /\ halted_by' = r
    /\ UNCHANGED <<imap_connection, fetched_email_data, idx, uids_to_mark_read,
                   outcome, send_calls, mark_calls, logouts, steps>>
    /\ UNCHANGED <<chunkVars, summVars, boxVars, raceVars, connVars, helperVars>>

\* lines 85-97 and 225-227
InitOpenAI ==
    /\ pc = "init_openai"
    /\ \E r \in {"ok", "AuthenticationError", "Exception"} :
          IF r = "ok"
          THEN pc' = "connect" /\ UNCHANGED <<exit_status, halted_by>>
          ELSE /\ pc' = "finally"
               /\ exit_status' = "exit1"
               /\ halted_by' = IF r = "AuthenticationError"
                               THEN "OpenAIAPIError" ELSE "OpenAIError"
    /\ UNCHANGED <<imap_connection, fetched_email_data, idx, uids_to_mark_read,
                   outcome, send_calls, mark_calls, logouts, steps>>
    /\ UNCHANGED <<chunkVars, summVars, boxVars, raceVars, connVars, helperVars>>

\* what the IMAP server and the network do to connect_to_imap: the result of
\* the constructor, of login and of select, and of the logout that follows
\* a refused select.  imaplib's login raises IMAP4.error when the server
\* answers NO; the connection object the tests substitute returns the NO.
ConnectScenarios ==
    {[create |-> c, login |-> "unreached", select |-> "unreached",
      logout |-> "unreached"] : c \in {"IMAP4.error", "OSError"}}
    \cup {[create |-> "OK", login |-> l, select |-> "unreached",
           logout |-> "unreached"] : l \in {"NO", "IMAP4.error"}}
    \cup {[create |-> "OK", login |-> "OK", select |-> "NO",
           logout |-> q] : q \in {"OK", "IMAP4.error"}}
    \cup {[create |-> "OK", login |-> "OK", select |-> s,
           logout |-> "unreached"] : s \in {"OK", "IMAP4.error"}}

\* the text the server sent with its answer
ServerResponse == "Authentication credentials invalid"

\* the except clauses of lines 65-70 of tldr_email_helper.py: the message
\* of the EmailConnectionError raised for an exception that left the try
\* block
connect_handler(exc, message) ==
    IF exc = "IMAP4.error"
    THEN <<"IMAP connection failed for user ">> \o message
    ELSE <<"Unexpected IMAP connection error for ">> \o message

\* connect_to_imap, lines 43-70 of tldr_email_helper.py: whether the
\* connection is returned, the calls made on it, and the message of the
\* EmailConnectionError raised.  The EmailConnectionError raised inside the
\* try block (lines 61 and 65) is itself caught by `except Exception`.
connect_to_imap(sc) ==
    IF sc.create # "OK"
    THEN [returned |-> FALSE, calls |-> <<>>,
          error |-> connect_handler(sc.create, <<"connection refused">>)]
    ELSE IF sc.login = "IMAP4.error"
    THEN [returned |-> FALSE,
          calls |-> <<[call |-> "login", result |-> sc.login]>>,
          error |-> connect_handler("IMAP4.error", <<ServerResponse>>)]
    ELSE IF sc.login # "OK"
    THEN [returned |-> FALSE,
          calls |-> <<[call |-> "login", result |-> sc.login]>>,
          error |-> connect_handler("EmailConnectionError",
                        <<"IMAP login failed for user ", ServerResponse>>)]
    ELSE IF sc.select = "IMAP4.error"
    THEN [returned |-> FALSE,
          calls |-> <<[call |-> "login", result |-> "OK"],
                      [call |-> "select", result |-> sc.select]>>,
          error |-> connect_handler("IMAP4.error", <<ServerResponse>>)]
    ELSE IF sc.select # "OK"
    THEN [returned |-> FALSE,
          calls |-> <<[call |-> "login", result |-> "OK"],
                      [call |-> "select", result |-> sc.select],
                      [call |-> "logout", result |-> sc.logout]>>,
          error |-> connect_handler("EmailConnectionError",
                        <<"Failed to select INBOX for user ", ServerResponse>>)]
    ELSE [returned |-> TRUE,
          calls |-> <<[call |-> "login", result |-> "OK"],
                      [call |-> "select", result |-> "OK"]>>,
          error |-> <<>>]

\* lines 99-107 and 219-221
ConnectImap ==
    /\ pc = "connect"
    /\ \E sc \in ConnectScenarios :
          LET r == connect_to_imap(sc)
          IN  /\ imap_calls' = r.calls
              /\ connect_error' = r.error
              /\ IF r.returned
                 THEN /\ pc' = "fetch"
                      /\ imap_connection' = "open"
                      /\ UNCHANGED <<exit_status, halted_by>>
                 ELSE /\ pc' = "finally"
                      /\ exit_status' = "exit1"
                      /\ halted_by' = "EmailConnectionError"
                      /\ UNCHANGED imap_connection
    /\ UNCHANGED <<fetched_email_data, idx, uids_to_mark_read,
                   outcome, send_calls, mark_calls, logouts, steps>>
    /\ UNCHANGED <<chunkVars, summVars, boxVars, raceVars, helperVars>>

\* lines 109-123 and 222-224, with fetch_emails (tldr_email_helper.py
\* 102-145): the search fails or the fetch of a UID raises, after n of the
\* UIDs found have been visited; or the search finds the unseen messages and
\* each is fetched with (RFC822).  The mailbox was selected read-write
\* (line 50), so an IMAP server flags a message \Seen when its RFC822 body
\* is fetched (RFC 3501, 6.4.5); the connection the tests substitute does
\* not.
FetchEmails ==
    /\ pc = "fetch"
    /\ \/ LET found == search_unseen(mailbox, seen)
          IN  \E n \in 0..Max(Len(found) - 1, 0), fetch_sets_seen \in BOOLEAN :
                 \E failed \in SUBSET UidsOf(SubSeq(found, 1, n)) :
                    /\ pc' = "finally"
                    /\ exit_status' = "exit1"
                    /\ halted_by' = "EmailFetchingError"
                    /\ seen' = IF fetch_sets_seen
                               THEN seen \cup (UidsOf(SubSeq(found, 1, n))
                                                  \ failed)
                               ELSE seen
                    /\ UNCHANGED <<fetched_email_data, outcome>>
       \/ LET found == search_unseen(mailbox, seen)
          IN  \E failed \in SUBSET UidsOf(found), fetch_sets_seen \in BOOLEAN :
                 LET msgs == fetched_messages(found, failed)
                 IN  /\ fetched_email_data' = [bound |-> TRUE, value |-> msgs]
                     /\ outcome' = [i \in 1..Len(msgs) |-> "pending"]
                     /\ seen' = IF fetch_sets_seen
                                THEN seen \cup UidsOf(msgs) ELSE seen
                     /\ pc' = IF msgs = <<>> THEN "finally" ELSE "loop"
                     /\ UNCHANGED <<exit_status, halted_by>>
    /\ idx' = 1
    /\ uids_to_mark_read' = <<>>
    /\ UNCHANGED <<imap_connection, send_calls, mark_calls, logouts, steps>>
    /\ UNCHANGED <<mailbox, run>>
    /\ UNCHANGED <<chunkVars, summVars, raceVars, connVars, helperVars>>

\* variant: the summary left by the previous message is passed on
initial_context_carried(previous_summary) == previous_summary

\* main.py 155-162 passes no initial_context, so the parameter takes its
\* default "" whatever summary the previous call left behind
initial_context_default(previous_summary) == <<>>

\* lines 126-162: one message up to the call of summarize_text_chunks
StartMessage ==
    /\ pc = "loop"
    /\ idx <= Len(Fetched)
    /\ LET email_body_text == get_email_content(Fetched[idx])
           r == chunk_text(email_body_text, model_name,
                           max_tokens_per_chunk, overlap_tokens)
       IN  IF email_body_text = <<>>
           THEN /\ SetOutcome("SkippedEmptyBody")
                /\ steps' = Append(steps, Step("extract"))
                /\ idx' = idx + 1
                /\ UNCHANGED <<pc, chunkVars, summVars>>
           ELSE /\ text_body' = email_body_text
                /\ tokens' = r.tokens
                /\ chunks' = r.chunks
                /\ current_pos' = r.current_pos
                /\ chunk_num' = r.chunk_num
                /\ cpc' = r.cpc
                /\ UNCHANGED <<model_name, max_tokens_per_chunk, overlap_tokens>>
                /\ IF r.cpc = "OpenAITokenizerError"
                   THEN /\ message_handler(r.cpc) = "skip"
                        /\ SetOutcome("OpenAITokenizerError")
                        /\ steps' = steps \o <<Step("extract"), Step("chunk")>>
                        /\ idx' = idx + 1
                        /\ UNCHANGED <<pc, summVars>>
                   ELSE IF r.chunks = <<>>
                   THEN /\ SetOutcome("SkippedNoChunks")
                        /\ steps' = steps \o <<Step("extract"), Step("chunk")>>
                        /\ idx' = idx + 1
                        /\ UNCHANGED <<pc, summVars>>
                   ELSE /\ SetOutcome("Summarizing")
                        /\ steps' = steps \o <<Step("extract"), Step("chunk"),
                                               Step("summarize")>>
                        /\ pc' = "summarizing"
                        /\ spc' = "call"
                        /\ summ_chunks' = [k \in 1..Len(r.chunks) |-> r.chunks[k].text]
                        /\ initial_context' = initial_context_default(cumulative_summary)
                        /\ summ_result' = <<>>
                        /\ summ_error' = "none"
                        /\ UNCHANGED <<idx, cumulative_summary, summ_i, llm_calls>>
    /\ UNCHANGED <<imap_connection, fetched_email_data, uids_to_mark_read,
                   send_calls, mark_calls, logouts, exit_status, halted_by>>
    /\ UNCHANGED <<boxVars, raceVars, connVars, helperVars>>

\* lines 191-202 and 228-231: summarize_text_chunks raised
SummarizeRaised ==
    /\ pc = "summarizing"
    /\ spc = "raised"
    /\ SetOutcome(llm_calls[Len(llm_calls)].llm.kind)
    /\ IF message_handler(summ_error) = "skip"
       THEN /\ idx' = idx + 1
            /\ pc' = "loop"
            /\ UNCHANGED <<exit_status, halted_by>>
       ELSE /\ pc' = "finally"
            /\ exit_status' = IF summ_error = "KeyboardInterrupt"
                              THEN "exit0" ELSE "exit1"
            /\ halted_by' = summ_error
            /\ UNCHANGED idx
    /\ spc' = "idle"
    /\ UNCHANGED <<summ_chunks, initial_context, cumulative_summary, summ_i,
                   summ_result, summ_error, llm_calls>>
    /\ UNCHANGED <<imap_connection, fetched_email_data, uids_to_mark_read,
                   send_calls, mark_calls, logouts, steps>>
    /\ UNCHANGED <<chunkVars, boxVars, raceVars, connVars, helperVars>>

\* lines 164-189: summarize_text_chunks returned; send the summary
SendSummary ==
    /\ pc = "summarizing"
    /\ spc = "returned"
    /\ LET summary_html == summ_result[1]
           uid == Fetched[idx].uid
       IN  IF summary_missing(summary_html)
           THEN /\ SetOutcome("EmptySummary")
                /\ UNCHANGED <<send_calls, uids_to_mark_read, steps>>
           ELSE \E send_success \in BOOLEAN :
                   /\ send_calls' = Append(send_calls,
                          [uid |-> uid, body_html |-> summary_html,
                           result |-> send_success])
                   /\ steps' = Append(steps, Step("send"))
                   /\ uids_to_mark_read' =
                          after_send(uids_to_mark_read, uid, send_success)
                   /\ SetOutcome(IF send_success THEN "Sent" ELSE "SendFailed")
    /\ idx' = idx + 1
    /\ pc' = "loop"
    /\ spc' = "idle"
    /\ UNCHANGED <<summ_chunks, initial_context, cumulative_summary, summ_i,
                   summ_result, summ_error, llm_calls>>
    /\ UNCHANGED <<imap_connection, fetched_email_data, mark_calls, logouts,
                   exit_status, halted_by>>
    /\ UNCHANGED <<chunkVars, boxVars, raceVars, connVars, helperVars>>

\* variant: mark_emails_as_read is called whatever was collected
mark_needed_always(uids) == TRUE

\* line 205 of main.py: `if uids_to_mark_read:`
mark_needed(uids) == uids # <<>>

\* lines 204-213, with mark_emails_as_read (tldr_email_helper.py 155-183):
\* one STORE +FLAGS (\Seen) for all the UIDs, which reports success or not
MarkRead ==
    /\ pc = "loop"
    /\ idx = Len(Fetched) + 1
    /\ IF mark_needed(uids_to_mark_read)
       THEN \E mark_success \in BOOLEAN :
               /\ mark_calls' = Append(mark_calls,
                      [uids |-> uids_to_mark_read, result |-> mark_success])
               /\ steps' = Append(steps, [step |-> "mark", uid |-> 0])
               /\ seen' = IF mark_success
                          THEN seen \cup {uids_to_mark_read[k] :
                                            k \in 1..Len(uids_to_mark_read)}
                          ELSE seen
       ELSE UNCHANGED <<mark_calls, steps, seen>>
    /\ pc' = "finally"
    /\ UNCHANGED <<imap_connection, fetched_email_data, idx, uids_to_mark_read,
                   outcome, send_calls, logouts, exit_status, halted_by>>
    /\ UNCHANGED <<mailbox, run>>
    /\ UNCHANGED <<chunkVars, summVars, raceVars, connVars, helperVars>>

\* variant: the connection is left as it is
close_imap_connection_skipped(mail_conn) == 0

\* close_imap_connection (tldr_email_helper.py 73-85): the number of
\* LOGOUT commands it issues; whatever logout() raises is logged there
close_imap_connection(mail_conn) == IF mail_conn = "open" THEN 1 ELSE 0

\* lines 236-245: logout, then the test of fetched_email_data, which is an
\* unbound local when the run stopped before fetch_emails returned
Finally ==
    /\ pc = "finally"
    /\ IF imap_connection # "none"
       THEN /\ imap_connection' = "closed"
            /\ logouts' = logouts + close_imap_connection(imap_connection)
       ELSE UNCHANGED <<imap_connection, logouts>>
    /\ exit_status' = IF ~fetched_email_data.bound THEN "UnboundLocalError"
                      ELSE IF exit_status = "running" THEN "returned"
                      ELSE exit_status
    /\ pc' = "done"
    /\ UNCHANGED <<fetched_email_data, idx, uids_to_mark_read, outcome,
                   send_calls, mark_calls, steps, halted_by>>
    /\ UNCHANGED <<chunkVars, summVars, boxVars, raceVars, connVars, helperVars>>

(* ---------------------------------------------------------------------- *)
(* Specifications                                                          *)
(* ---------------------------------------------------------------------- *)
(* ---------------------------------------------------------------------- *)
(* send_email                                                              *)
(* ---------------------------------------------------------------------- *)

\* port 465 is served by SMTP_SSL, any other port by SMTP and STARTTLS
Ports == {465, 587}

\* the exceptions the except clauses of lines 367-380 name, in their order
SMTPFailures == {"SMTPAuthenticationError", "SMTPConnectError",
                 "SMTPServerDisconnected", "SMTPException", "gaierror",
                 "timeout", "Exception"}

\* what a step of the try block can do
SendOutcomes == {"ok"} \cup SMTPFailures \cup {"KeyboardInterrupt"}

\* lines 367-380: every Exception is logged and the function goes on to its
\* finally block and `return False`; anything else propagates
send_handler(exc) == IF exc \in SMTPFailures THEN "logged" ELSE "propagate"

\* lines 346-358: the call that follows a successful one
next_call(p, call) ==
    IF call = "connect" THEN (IF p = 465 THEN "login" ELSE "starttls")
    ELSE IF call = "starttls" THEN "login"
    ELSE IF call = "login" THEN "send_message"
    ELSE "finally"

\* variant: the connection is left open
quit_needed_never(s) == FALSE

\* line 382: `if smtp:`
quit_needed(s) == s # "None"

\* lines 275-343: the message is built
SendBuild ==
    /\ send_pc = "build"
    /\ \E r \in {"ok", "Exception"} :
          IF r = "ok"
          THEN send_pc' = "connect" /\ UNCHANGED send_caught
          ELSE send_pc' = "finally" /\ send_caught' = r
    /\ UNCHANGED <<port, smtp, smtp_calls, send_returned>>
    /\ UNCHANGED <<chunkVars, summVars, mainVars, boxVars, raceVars, connVars,
                   cfgVars, contentVars, fetchVars>>

\* lines 346-351: the SMTP object is constructed, which connects
SendConnect ==
    /\ send_pc = "connect"
    /\ \E r \in SendOutcomes :
          IF r = "ok"
          THEN /\ smtp' = IF port = 465 THEN "SMTP_SSL" ELSE "SMTP"
               /\ send_pc' = next_call(port, "connect")
               /\ UNCHANGED send_caught
          ELSE /\ send_pc' = "finally"
               /\ send_caught' = r
               /\ UNCHANGED smtp
    /\ UNCHANGED <<port, smtp_calls, send_returned>>
    /\ UNCHANGED <<chunkVars, summVars, mainVars, boxVars, raceVars, connVars,
                   cfgVars, contentVars, fetchVars>>

\* lines 351-359: starttls, login and send_message, then `return True`
SendCall ==
    /\ send_pc \in {"starttls", "login", "send_message"}
    /\ \E r \in SendOutcomes :
          /\ smtp_calls' = Append(smtp_calls, [call |-> send_pc, result |-> r])
          /\ IF r = "ok"
             THEN /\ send_pc' = next_call(port, send_pc)
                  /\ send_returned' = IF send_pc = "send_message"
                                      THEN "True" ELSE send_returned
                  /\ UNCHANGED send_caught
             ELSE /\ send_pc' = "finally"
                  /\ send_caught' = r
                  /\ UNCHANGED send_returned
    /\ UNCHANGED <<port, smtp>>
    /\ UNCHANGED <<chunkVars, summVars, mainVars, boxVars, raceVars, connVars,
                   cfgVars, contentVars, fetchVars>>

\* lines 381-386: the finally block, and how the call ends
SendFinally ==
    /\ send_pc = "finally"
    /\ IF quit_needed(smtp)
       THEN \E q \in {"ok", "Exception"} :
               smtp_calls' = Append(smtp_calls, [call |-> "quit", result |-> q])
       ELSE UNCHANGED smtp_calls
    /\ send_returned' =
          IF send_caught # "none" /\ send_handler(send_caught) = "propagate"
          THEN "raised"
          ELSE IF send_returned = "True" THEN "True" ELSE "False"
    /\ send_pc' = "done"
    /\ UNCHANGED <<port, smtp, send_caught>>
    /\ UNCHANGED <<chunkVars, summVars, mainVars, boxVars, raceVars, connVars,
                   cfgVars, contentVars, fetchVars>>

(* ---------------------------------------------------------------------- *)
(* load_key_from_config_file and load_critical_configs                     *)
(* ---------------------------------------------------------------------- *)

\* Python's None, which is also what JSON null is loaded as
None == "None"

\* lines 83-93 of tldr_system_helper.py, in the order of the dict
critical_keys_to_load ==
    <<"gmail_user", "gmail_app_pass", "openai_api_key", "target_email",
      "stratechery_sender_email", "forward_original_email",
      "openai_model_name", "system_prompt">>

ConfigKeys == {critical_keys_to_load[k] : k \in DOMAIN critical_keys_to_load}

CriticalKeys == {"gmail_user", "gmail_app_pass", "openai_api_key",
                 "target_email", "stratechery_sender_email"}

\* variant: no key is loaded as critical
is_critical_key_never(key) == FALSE

\* the True / False of lines 84-92
is_critical_key(key) == key \in CriticalKeys

\* what a key of the file can hold: nothing (the key is absent), JSON null,
\* the empty string, or a non-empty string
EntryValues(key) ==
    IF key \in {"gmail_user", "openai_api_key"}
    THEN {"absent", "null", "", "v"}
    ELSE {"absent", "v"}

\* the configuration file: missing, not JSON, JSON that is not an object,
\* or an object
ConfigFiles ==
    {[status |-> st, data |-> <<>>] : st \in {"missing", "invalid", "not_object"}}
    \cup {[status |-> "object", data |-> d] :
            d \in {f \in [ConfigKeys -> {"absent", "null", "", "v"}] :
                      \A k \in ConfigKeys : f[k] \in EntryValues(k)}}

DefaultValues == {None, "", "d"}

\* line 37: config_data.get(key_name)
dict_get(data, key) ==
    IF key \notin DOMAIN data THEN None
    ELSE IF data[key] \in {"absent", "null"} THEN None
    ELSE data[key]

\* variant: `if value:`
has_value_truthy(value) == value \notin {None, ""}

\* line 39: `if value is not None:`
has_value(value) == value # None

\* lines 32-74.  A ConfigError raised at line 58 is caught by the
\* `except Exception` of line 71 and raised again as ConfigError.
load_key_from_config_file(file, key, dflt, critical) ==
    IF file.status # "object"
    THEN [status |-> "ConfigError", value |-> None]
    ELSE LET value == dict_get(file.data, key)
         IN  IF has_value(value) THEN [status |-> "returned", value |-> value]
             ELSE IF dflt # None THEN [status |-> "returned", value |-> dflt]
             ELSE IF critical THEN [status |-> "ConfigError", value |-> None]
             ELSE [status |-> "returned", value |-> None]

\* one call of load_key_from_config_file
LoadKey ==
    /\ cfg_pc = "ready"
    /\ \E key \in ConfigKeys, dflt \in DefaultValues, critical \in BOOLEAN :
          /\ key_name' = key
          /\ default' = dflt
          /\ is_critical' = critical
          /\ key_result' = load_key_from_config_file(config_file, key, dflt,
                                                     critical)
    /\ cfg_pc' = "key_done"
    /\ UNCHANGED <<config_file, configs, cfg_k>>
    /\ UNCHANGED <<chunkVars, summVars, mainVars, boxVars, raceVars, connVars,
                   sendVars, contentVars, fetchVars>>

\* lines 95-113: one iteration of the for loop of load_critical_configs,
\* and the return that follows the last one
LoadCriticalStep ==
    /\ cfg_pc \in {"ready", "loading"}
    /\ LET key == critical_keys_to_load[cfg_k + 1]
           r == load_key_from_config_file(config_file, key, None,
                                          is_critical_key(key))
       IN  IF r.status = "ConfigError"
           THEN /\ cfg_pc' = "ConfigError"
                /\ UNCHANGED <<configs, cfg_k>>
           ELSE /\ configs' = Append(configs, [key |-> key, value |-> r.value])
                /\ cfg_k' = cfg_k + 1
                /\ cfg_pc' = IF cfg_k + 1 = Len(critical_keys_to_load)
                             THEN "returned" ELSE "loading"
    /\ UNCHANGED <<config_file, key_name, default, is_critical, key_result>>
    /\ UNCHANGED <<chunkVars, summVars, mainVars, boxVars, raceVars, connVars,
                   sendVars, contentVars, fetchVars>>

(* ---------------------------------------------------------------------- *)
(* get_email_content on messages of several parts                          *)
(* ---------------------------------------------------------------------- *)

MaxParts == 3

Part(type, att, dec, text) ==
    [content_type |-> type, attachment |-> att, decodable |-> dec,
     payload |-> text]

\* the parts a message is made of: text/plain and text/html bodies that are
\* empty, blank or not, a body that is an attachment, a body whose bytes
\* cannot be decoded, and a part that is no text
PartKinds ==
    {Part("text/plain", FALSE, TRUE, t) :
        t \in {<<>>, <<" ">>, <<"p", " ">>, <<"q">>}}
    \cup {Part("text/html", FALSE, TRUE, t) : t \in {<<>>, <<"h", " ">>, <<"g">>}}
    \cup {Part("text/plain", TRUE, TRUE, <<"x">>),
          Part("text/html", TRUE, TRUE, <<"y">>),
          Part("text/plain", FALSE, FALSE, <<"u">>),
          Part("text/html", FALSE, FALSE, <<"v">>),
          Part("image/png", FALSE, TRUE, <<"i">>)}

Messages ==
    {[multipart |-> TRUE, parts |-> ps] : ps \in SeqsUpTo(PartKinds, MaxParts)}
    \cup {[multipart |-> FALSE, parts |-> <<p>>] : p \in PartKinds}

\* one call of get_email_content
ExtractContent ==
    /\ content_pc = "call"
    /\ content_result' = message_content(msg)
    /\ content_pc' = "returned"
    /\ UNCHANGED msg
    /\ UNCHANGED <<chunkVars, summVars, mainVars, boxVars, raceVars, connVars,
                   sendVars, cfgVars, fetchVars>>

ChunkIdle ==
    /\ text_body = <<>>
    /\ tokens = <<>>
    /\ chunks = <<>>
    /\ current_pos = 0
    /\ chunk_num = 1
    /\ cpc = "idle"

SummIdle ==
    /\ summ_chunks = <<>>
    /\ initial_context = <<>>
    /\ cumulative_summary = <<>>
    /\ summ_i = 0
    /\ spc = "idle"
    /\ summ_result = <<>>
    /\ summ_error = "none"
    /\ llm_calls = <<>>

MainStart(p) ==
    /\ pc = p
    /\ imap_connection = "none"
    /\ fetched_email_data = Unbound
    /\ idx = 0
    /\ uids_to_mark_read = <<>>
    /\ outcome = <<>>
    /\ send_calls = <<>>
    /\ mark_calls = <<>>
    /\ logouts = 0
    /\ exit_status = "running"
    /\ steps = <<>>
    /\ halted_by = "none"
    /\ imap_calls = <<>>
    /\ connect_error = <<>>

(* ---------------------------------------------------------------------- *)
(* The basic scenario of the tests of chunk_text                           *)
(* ---------------------------------------------------------------------- *)
\* "one two three four five six seven eight nine ten"
ScenarioText ==
    <<"o", "n", "e", " ", "t", "w", "o", " ", "t", "h", "r", "e", "e",
      " ", "f", "o", "u", "r", " ", "f", "i", "v", "e", " ", "s", "i",
      "x", " ", "s", "e", "v", "e", "n", " ", "e", "i", "g", "h", "t",
      " ", "n", "i", "n", "e", " ", "t", "e", "n">>

\* "one two three four"
ScenarioChunk1 ==
    <<"o", "n", "e", " ", "t", "w", "o", " ", "t", "h", "r", "e", "e",
      " ", "f", "o", "u", "r">>

\* "four five six seven"
ScenarioChunk2 ==
    <<"f", "o", "u", "r", " ", "f", "i", "v", "e", " ", "s", "i", "x",
      " ", "s", "e", "v", "e", "n">>

\* "seven eight nine ten"
ScenarioChunk3 ==
    <<"s", "e", "v", "e", "n", " ", "e", "i", "g", "h", "t", " ", "n",
      "i", "n", "e", " ", "t", "e", "n">>

\* nothing has run on the mailbox yet
BoxStart ==
    /\ seen = {}
    /\ run = 1

\* send_email is not being called
SendIdle ==
    /\ port = 0
    /\ smtp = "None"
    /\ smtp_calls = <<>>
    /\ send_pc = "idle"
    /\ send_caught = "none"
    /\ send_returned = "none"

\* no configuration call is being made
CfgIdle ==
    /\ config_file = [status |-> "missing", data |-> <<>>]
    /\ key_name = None
    /\ default = None
    /\ is_critical = FALSE
    /\ key_result = [status |-> "none", value |-> None]
    /\ configs = <<>>
    /\ cfg_k = 0
    /\ cfg_pc = "off"

\* get_email_content is not being called on its own
ContentIdle ==
    /\ msg = [multipart |-> FALSE, parts |-> <<>>]
    /\ content_result = NoBody
    /\ content_pc = "off"

\* fetch_emails is not being called on its own
FetchIdle ==
    /\ email_uids_list = <<>>
    /\ uid_pos = 0
    /\ messages_data = <<>>
    /\ fetch_log = <<>>
    /\ fetch_pc = "off"

HelperIdle == SendIdle /\ CfgIdle /\ ContentIdle /\ FetchIdle

BoxIdle == mailbox = <<>> /\ BoxStart

RaceIdle == runs = <<>> /\ overlapped = FALSE

\* lines 247-248 of main.py: the script is started again (by the scheduler)
\* after the previous run has ended.  The new process starts with fresh
\* locals; only the mailbox and the configuration are what they were.
NewRun ==
    /\ pc = "done"
    /\ run < MaxRuns
    /\ run' = run + 1
    /\ pc' = "load_config"
    /\ imap_connection' = "none"
    /\ fetched_email_data' = Unbound
    /\ idx' = 0
    /\ uids_to_mark_read' = <<>>
    /\ outcome' = <<>>
    /\ send_calls' = <<>>
    /\ mark_calls' = <<>>
    /\ logouts' = 0
    /\ exit_status' = "running"
    /\ steps' = <<>>
    /\ halted_by' = "none"
    /\ imap_calls' = <<>>
    /\ connect_error' = <<>>
    /\ text_body' = <<>>
    /\ tokens' = <<>>
    /\ chunks' = <<>>
    /\ current_pos' = 0
    /\ chunk_num' = 1
    /\ cpc' = "idle"
    /\ summ_chunks' = <<>>
    /\ initial_context' = <<>>
    /\ cumulative_summary' = <<>>
    /\ summ_i' = 0
    /\ spc' = "idle"
    /\ summ_result' = <<>>
    /\ summ_error' = "none"
    /\ llm_calls' = <<>>
    /\ UNCHANGED <<model_name, max_tokens_per_chunk, overlap_tokens>>
    /\ UNCHANGED <<mailbox, seen, raceVars, helperVars>>

InitChunk ==
    /\ text_body \in Texts \cup {ScenarioText}
    /\ model_name \in ModelNames
    /\ max_tokens_per_chunk \in MaxTokensValues
    /\ overlap_tokens \in OverlapValues
    /\ tokens = <<>>
    /\ chunks = <<>>
    /\ current_pos = 0
    /\ chunk_num = 1
    /\ cpc = "call"
    /\ SummIdle
    /\ MainStart("off")
    /\ BoxIdle
    /\ RaceIdle
    /\ HelperIdle

NextChunk == ChunkEntry \/ ChunkIterate

SpecChunk == InitChunk /\ [][NextChunk]_vars

\* chunk texts: one word, several words, and a line of the newsletter that
\* holds a run of number signs (a markdown heading, a separator line)
ChunkSamples == {<<"a">>, <<"a", " ", "a", "a">>, <<"#", "#", "#", "#", "a">>}

InitialContexts == {<<>>, <<"I">>}

InitSumm ==
    /\ ChunkIdle
    /\ model_name = "gpt-4o"
    /\ max_tokens_per_chunk = DEFAULT_MAX_TOKENS_PER_CHUNK
    /\ overlap_tokens = DEFAULT_CHUNK_OVERLAP_TOKENS
    /\ summ_chunks \in SeqsUpTo(ChunkSamples, MaxChunks)
    /\ initial_context \in InitialContexts
    /\ cumulative_summary = <<>>
    /\ summ_i = 0
    /\ spc = "call"
    /\ summ_result = <<>>
    /\ summ_error = "none"
    /\ llm_calls = <<>>
    /\ MainStart("off")
    /\ BoxIdle
    /\ RaceIdle
    /\ HelperIdle

NextSumm == SummEntry \/ LLMCall

SpecSumm == InitSumm /\ [][NextSumm]_vars

InitSend ==
    /\ ChunkIdle
    /\ model_name = "gpt-4o"
    /\ max_tokens_per_chunk = DEFAULT_MAX_TOKENS_PER_CHUNK
    /\ overlap_tokens = DEFAULT_CHUNK_OVERLAP_TOKENS
    /\ SummIdle
    /\ MainStart("off")
    /\ BoxIdle
    /\ runs = <<>> /\ overlapped = FALSE
    /\ FetchIdle
    /\ port \in Ports
    /\ smtp = "None"
    /\ smtp_calls = <<>>
    /\ send_pc = "build"
    /\ send_caught = "none"
    /\ send_returned = "none"
    /\ CfgIdle
    /\ ContentIdle

NextSend == SendBuild \/ SendConnect \/ SendCall \/ SendFinally

SpecSend == InitSend /\ [][NextSend]_vars

InitConfig ==
    /\ ChunkIdle
    /\ model_name = "gpt-4o"
    /\ max_tokens_per_chunk = DEFAULT_MAX_TOKENS_PER_CHUNK
    /\ overlap_tokens = DEFAULT_CHUNK_OVERLAP_TOKENS
    /\ SummIdle
    /\ MainStart("off")
    /\ BoxIdle
    /\ runs = <<>> /\ overlapped = FALSE
    /\ FetchIdle
    /\ SendIdle
    /\ ContentIdle
    /\ config_file \in ConfigFiles
    /\ key_name = None
    /\ default = None
    /\ is_critical = FALSE
    /\ key_result = [status |-> "none", value |-> None]
    /\ configs = <<>>
    /\ cfg_k = 0
    /\ cfg_pc = "ready"

NextConfig == LoadKey \/ LoadCriticalStep

SpecConfig == InitConfig /\ [][NextConfig]_vars

InitContent ==
    /\ ChunkIdle
    /\ model_name = "gpt-4o"
    /\ max_tokens_per_chunk = DEFAULT_MAX_TOKENS_PER_CHUNK
    /\ overlap_tokens = DEFAULT_CHUNK_OVERLAP_TOKENS
    /\ SummIdle
    /\ MainStart("off")
    /\ BoxIdle
    /\ runs = <<>> /\ overlapped = FALSE
    /\ FetchIdle
    /\ SendIdle
    /\ CfgIdle
    /\ msg \in Messages
    /\ content_result = NoBody
    /\ content_pc = "call"

NextContent == ExtractContent

SpecContent == InitContent /\ [][NextContent]_vars

(* ---------------------------------------------------------------------- *)
(* fetch_emails                                                            *)
(* ---------------------------------------------------------------------- *)

\* what mail_conn.uid('search', ...) does: it returns with status OK or NO,
\* or raises imaplib.IMAP4.error (a BAD answer, a lost connection)
SearchResponses == {"OK", "NO", "IMAP4.error"}

\* what mail_conn.uid('fetch', uid, '(RFC822)') does: it returns OK with the
\* message literal, OK without one (the message is gone), or NO, or raises
FetchResponses == {"OK", "OK_no_message", "NO", "IMAP4.error"}

\* variant: a fetch that is not OK ends the whole call
fetch_one_abort_on_no(data, m, response) ==
    IF response \in {"IMAP4.error", "NO"}
    THEN [raised |-> TRUE, messages_data |-> data]
    ELSE IF response = "OK"
    THEN [raised |-> FALSE, messages_data |-> Append(data, m)]
    ELSE [raised |-> FALSE, messages_data |-> data]

\* lines 121-133: one pass of the loop over the UIDs.  A status other than
\* OK is logged and the loop goes on; the message of each literal of the
\* answer is appended; an exception leaves the loop
fetch_one(data, m, response) ==
    IF response = "IMAP4.error"
    THEN [raised |-> TRUE, messages_data |-> data]
    ELSE IF response = "OK"
    THEN [raised |-> FALSE, messages_data |-> Append(data, m)]
    ELSE [raised |-> FALSE, messages_data |-> data]

\* lines 104-119 and 138-145: the search.  The EmailFetchingError raised for
\* a status other than OK is caught by `except Exception` and raised again
\* as EmailFetchingError, as is what the search itself raises
FetchSearch ==
    /\ fetch_pc = "call"
    /\ \E typ \in SearchResponses :
          LET found == search_unseen(mailbox, seen)
          IN  /\ fetch_log' = <<[uid |-> 0, typ |-> typ]>>
              /\ IF typ # "OK"
                 THEN /\ fetch_pc' = "EmailFetchingError"
                      /\ UNCHANGED <<email_uids_list, uid_pos>>
                 ELSE /\ email_uids_list' = found
                      /\ uid_pos' = 1
                      /\ fetch_pc' = IF found = <<>> THEN "returned" ELSE "loop"
    /\ UNCHANGED messages_data
    /\ UNCHANGED <<chunkVars, summVars, mainVars, boxVars, raceVars, connVars,
                   sendVars, cfgVars, contentVars>>

\* lines 121-145: the fetch of the next UID; the server flags the message
\* \Seen when it hands out its RFC822 body (the inbox is selected read-write)
FetchOne ==
    /\ fetch_pc = "loop"
    /\ \E response \in FetchResponses, fetch_sets_seen \in BOOLEAN :
          LET m == email_uids_list[uid_pos]
              r == fetch_one(messages_data, m, response)
          IN  /\ fetch_log' = Append(fetch_log, [uid |-> m.uid, typ |-> response])
              /\ messages_data' = r.messages_data
              /\ seen' = IF response = "OK" /\ fetch_sets_seen
                         THEN seen \cup {m.uid} ELSE seen
              /\ IF r.raised
                 THEN fetch_pc' = "EmailFetchingError" /\ UNCHANGED uid_pos
                 ELSE /\ uid_pos' = uid_pos + 1
                      /\ fetch_pc' = IF uid_pos = Len(email_uids_list)
                                     THEN "returned" ELSE "loop"
    /\ UNCHANGED <<email_uids_list, mailbox, run>>
    /\ UNCHANGED <<chunkVars, summVars, mainVars, raceVars, connVars,
                   sendVars, cfgVars, contentVars>>

InitFetch ==
    /\ ChunkIdle
    /\ model_name = "gpt-4o"
    /\ max_tokens_per_chunk = DEFAULT_MAX_TOKENS_PER_CHUNK
    /\ overlap_tokens = DEFAULT_CHUNK_OVERLAP_TOKENS
    /\ SummIdle
    /\ MainStart("off")
    /\ mailbox \in FetchResults
    /\ seen \in SUBSET UidsOf(mailbox)
    /\ run = 1
    /\ RaceIdle
    /\ SendIdle
    /\ CfgIdle
    /\ ContentIdle
    /\ email_uids_list = <<>>
    /\ uid_pos = 0
    /\ messages_data = <<>>
    /\ fetch_log = <<>>
    /\ fetch_pc = "call"

NextFetch == FetchSearch \/ FetchOne

SpecFetch == InitFetch /\ [][NextFetch]_vars

Init ==
    /\ ChunkIdle
    /\ model_name \in ModelNames
    /\ max_tokens_per_chunk \in ConfigMaxTokens
    /\ overlap_tokens = DEFAULT_CHUNK_OVERLAP_TOKENS
    /\ SummIdle
    /\ MainStart("load_config")
    /\ mailbox \in FetchResults
    /\ BoxStart
    /\ RaceIdle
    /\ HelperIdle

Next ==
    \/ LoadConfig
    \/ InitOpenAI
    \/ ConnectImap
    \/ FetchEmails
    \/ StartMessage
    \/ SummEntry
    \/ LLMCall
    \/ SummarizeRaised
    \/ SendSummary
    \/ MarkRead
    \/ Finally
    \/ NewRun

Spec == Init /\ [][Next]_vars

(* ---------------------------------------------------------------------- *)
(* Several runs of main_process on one mailbox, steps interleaved.  A run   *)
(* is followed through what it does to the mailbox and to the recipient:   *)
(* its fetch, the message it is working on, its sends and its marking.     *)
(* ---------------------------------------------------------------------- *)
RunIds == 1..MaxRuns

Active(r) == runs[r].pc \notin {"off", "done"}

RunStart ==
    [pc |-> "off", order |-> 0, fetched |-> <<>>, idx |-> 0,
     uids_to_mark_read |-> <<>>, sent |-> {}, mark |-> "none"]

\* lines 99-123: run r connects, searches and fetches.  It overlaps when
\* another run has started and not ended.
RaceFetch == \E r \in RunIds :
    /\ runs[r].pc = "off"
    /\ LET found == search_unseen(mailbox, seen)
       IN  \E failed \in SUBSET UidsOf(found), fetch_sets_seen \in BOOLEAN :
              LET msgs == fetched_messages(found, failed)
              IN  /\ runs' = [runs EXCEPT ![r] =
                        [@ EXCEPT !.pc = IF msgs = <<>> THEN "done" ELSE "loop",
                                  !.order = 1 + Cardinality(
                                      {q \in RunIds : runs[q].pc # "off"}),
                                  !.fetched = msgs,
                                  !.idx = 1]]
                  /\ seen' = IF fetch_sets_seen
                             THEN seen \cup UidsOf(msgs) ELSE seen
    /\ overlapped' = (overlapped \/ \E q \in RunIds \ {r} : Active(q))
    /\ UNCHANGED <<mailbox, run>>
    /\ UNCHANGED <<chunkVars, summVars, mainVars, connVars, helperVars>>

\* lines 130-148 and 191-200: the message is skipped, or fails, before any
\* request to the LLM
RaceSkip == \E r \in RunIds :
    /\ runs[r].pc = "loop"
    /\ runs[r].idx <= Len(runs[r].fetched)
    /\ runs' = [runs EXCEPT ![r].idx = @ + 1]
    /\ UNCHANGED <<overlapped, boxVars, chunkVars, summVars, mainVars, connVars, helperVars>>

\* lines 155-162: summarize_text_chunks is called for the message
RaceSummarize == \E r \in RunIds :
    /\ runs[r].pc = "loop"
    /\ runs[r].idx <= Len(runs[r].fetched)
    /\ runs' = [runs EXCEPT ![r].pc = "summarizing"]
    /\ UNCHANGED <<overlapped, boxVars, chunkVars, summVars, mainVars, connVars, helperVars>>

\* lines 164-200: the summarization failed or gave nothing, or the summary
\* was handed to send_email, which succeeded or not
RaceFinish == \E r \in RunIds :
    /\ runs[r].pc = "summarizing"
    /\ \E result \in {"NoSummary", "Sent", "SendFailed"} :
          LET uid == runs[r].fetched[runs[r].idx].uid
          IN  runs' = [runs EXCEPT ![r] =
                  [@ EXCEPT !.pc = "loop",
                            !.idx = @ + 1,
                            !.sent = IF result = "Sent"
                                     THEN @ \cup {uid} ELSE @,
                            !.uids_to_mark_read =
                                IF result = "NoSummary" THEN @
                                ELSE after_send(@, uid, result = "Sent")]]
    /\ UNCHANGED <<overlapped, boxVars, chunkVars, summVars, mainVars, connVars, helperVars>>

\* lines 204-213
RaceMark == \E r \in RunIds :
    /\ runs[r].pc = "loop"
    /\ runs[r].idx = Len(runs[r].fetched) + 1
    /\ IF runs[r].uids_to_mark_read # <<>>
       THEN \E mark_success \in BOOLEAN :
               /\ runs' = [runs EXCEPT ![r] =
                     [@ EXCEPT !.pc = "done",
                               !.mark = IF mark_success
                                        THEN "marked" ELSE "failed"]]
               /\ seen' = IF mark_success
                          THEN seen \cup {runs[r].uids_to_mark_read[k] :
                                 k \in 1..Len(runs[r].uids_to_mark_read)}
                          ELSE seen
       ELSE /\ runs' = [runs EXCEPT ![r].pc = "done"]
            /\ UNCHANGED seen
    /\ UNCHANGED <<overlapped, mailbox, run>>
    /\ UNCHANGED <<chunkVars, summVars, mainVars, connVars, helperVars>>

\* lines 228-231: the run is interrupted; nothing is marked
RaceInterrupt == \E r \in RunIds :
    /\ runs[r].pc \in {"loop", "summarizing"}
    /\ runs' = [runs EXCEPT ![r].pc = "done"]
    /\ UNCHANGED <<overlapped, boxVars, chunkVars, summVars, mainVars, connVars, helperVars>>

\* what the messages hold plays no part here: every message has a text part
RaceMailboxes ==
    {m \in FetchResults : \A i \in 1..Len(m) : m[i].payload = <<"a", " ", "a">>}

InitRace ==
    /\ ChunkIdle
    /\ model_name = "gpt-4o"
    /\ max_tokens_per_chunk = DEFAULT_MAX_TOKENS_PER_CHUNK
    /\ overlap_tokens = DEFAULT_CHUNK_OVERLAP_TOKENS
    /\ SummIdle
    /\ MainStart("off")
    /\ mailbox \in RaceMailboxes
    /\ BoxStart
    /\ runs = [r \in RunIds |-> RunStart]
    /\ overlapped = FALSE
    /\ HelperIdle

NextRace ==
    \/ RaceFetch
    \/ RaceSkip
    \/ RaceSummarize
    \/ RaceFinish
    \/ RaceMark
    \/ RaceInterrupt

SpecRace == InitRace /\ [][NextRace]_vars

(* ---------------------------------------------------------------------- *)
(* Properties of chunk_text                                                *)
(* ---------------------------------------------------------------------- *)
Tokenized == cpc \in {"loop", "returned"} /\ text_body # <<>>

ValidParams == max_tokens_per_chunk >= 1 /\ overlap_tokens >= 0

MultiChunk == Tokenized /\ ValidParams /\ total_tokens > max_tokens_per_chunk

\* the tokens a reader of the chunk texts gets back: each chunk re-tokenized,
\* the part it shares with its predecessor's window dropped
RECURSIVE Reassemble(_, _)
Reassemble(chs, prevEnd) ==
    IF chs = <<>> THEN <<>>
    ELSE LET c == Head(chs)
             toks == encode(c.text)
         IN  SubSeq(toks, prevEnd - c.start + 1, Len(toks))
             \o Reassemble(Tail(chs), c.end)

\* C1: for non-empty text, max_tokens_per_chunk >= 1 and overlap_tokens >= 0,
\* every chunk corresponds to a contiguous window of at most
\* max_tokens_per_chunk tokens of the text's token sequence: the chunk's
\* tokens are exactly that window, its measured token count does not exceed
\* max_tokens_per_chunk, and its text is the decoding of the window (for the
\* single chunk that is the text itself this is the tokenizer's round trip).
C1_ChunkWithinWindow ==
    (Tokenized /\ ValidParams) =>
        \A i \in 1..Len(chunks) :
            LET c == chunks[i]
            IN  /\ 0 <= c.start /\ c.start < c.end /\ c.end <= total_tokens
                /\ c.end - c.start <= max_tokens_per_chunk
                /\ c.chunk_tokens = SubSeq(tokens, c.start + 1, c.end)
                /\ encode(c.text) = c.chunk_tokens
                /\ count_tokens(c.text, model_name).value <= max_tokens_per_chunk
                /\ (total_tokens > max_tokens_per_chunk \/ decode(tokens) = text_body)
                       => c.text = decode(c.chunk_tokens)

C1_Witness ==
    /\ cpc = "returned" /\ ValidParams
    /\ Len(chunks) >= 3
    /\ Len(chunks[1].chunk_tokens) = max_tokens_per_chunk
    /\ Len(chunks[Len(chunks)].chunk_tokens) < max_tokens_per_chunk

\* C7: for a text with more tokens than max_tokens_per_chunk (max >= 1,
\* overlap >= 0) the chunk windows are in increasing order, start at token 0,
\* leave no gap, and the chunks put together with each chunk's overlap with
\* its predecessor removed give back the token sequence (all of it once
\* chunk_text has returned).
C7_WindowsCover ==
    MultiChunk =>
        /\ \A i \in 1..Len(chunks) :
              /\ i = 1 => chunks[i].start = 0
              /\ i > 1 => /\ chunks[i - 1].start < chunks[i].start
                          /\ chunks[i - 1].end < chunks[i].end
                          /\ chunks[i].start <= chunks[i - 1].end
        /\ chunks # <<>> =>
              Reassemble(chunks, 0) = SubSeq(tokens, 1, chunks[Len(chunks)].end)
        /\ cpc = "returned" => Reassemble(chunks, 0) = tokens

C7_Witness ==
    /\ MultiChunk /\ cpc = "returned"
    /\ Len(chunks) >= 3
    /\ overlap_tokens >= 1
    /\ \E i, j \in 1..Len(tokens) : tokens[i] # tokens[j]

\* C8: for a text with more tokens than max_tokens_per_chunk (max >= 1, any
\* overlap >= 0, also overlap >= max) the last chunk returned ends exactly at
\* the last token, no earlier chunk reaches it (the loop stops as soon as a
\* window does), and no chunk is empty.
C8_EndsAtLastToken ==
    MultiChunk =>
        /\ \A i \in 1..Len(chunks) :
              /\ chunks[i].chunk_tokens # <<>>
              /\ chunks[i].text # <<>>
              /\ chunks[i].end = total_tokens => (i = Len(chunks) /\ cpc = "returned")
        /\ cpc = "returned" =>
              /\ chunks # <<>>
              /\ chunks[Len(chunks)].end = total_tokens

C8_Witness ==
    /\ MultiChunk /\ cpc = "returned"
    /\ overlap_tokens >= max_tokens_per_chunk
    /\ Len(chunks) >= 2
    /\ chunks[Len(chunks)].end = total_tokens

\* the fallback advance as the specification words it
C9_Fallback ==
    IF max_tokens_per_chunk = 1 THEN 1 ELSE max_tokens_per_chunk \div 2

C9_Pre == max_tokens_per_chunk >= 1 /\ overlap_tokens >= max_tokens_per_chunk

\* C9: with max_tokens_per_chunk >= 1 and overlap_tokens >= max_tokens_per_chunk
\* the window start advances by the positive fallback (max // 2, or 1 when max
\* is 1) on every iteration that does not end the loop, every iteration adds
\* one chunk, and the number of iterations never exceeds
\* ceil(total_tokens / fallback), so the loop terminates within that bound.
C9_FallbackTerminates ==
    /\ [](C9_Pre /\ Tokenized =>
            /\ C9_Fallback >= 1
            /\ cpc = "loop" => Len(chunks) < CeilDiv(total_tokens, C9_Fallback)
            /\ Len(chunks) <= CeilDiv(total_tokens, C9_Fallback))
    /\ [][(C9_Pre /\ cpc = "loop") =>
            /\ Len(chunks') = Len(chunks) + 1
            /\ cpc' = "loop" => /\ current_pos' = current_pos + C9_Fallback
                                /\ current_pos' > current_pos
            /\ cpc' # "loop" => cpc' = "returned"]_vars

C9_Witness ==
    /\ C9_Pre /\ cpc = "returned"
    /\ max_tokens_per_chunk >= 4
    /\ Len(chunks) >= 2

C10_Pre ==
    /\ Tokenized
    /\ total_tokens > max_tokens_per_chunk
    /\ 0 <= overlap_tokens /\ overlap_tokens < max_tokens_per_chunk

\* C10: for total_tokens > max and 0 <= overlap < max, the k-th chunk (k from
\* 0) is the decoding of tokens [k*(max-overlap), min(k*(max-overlap)+max,
\* total)), so the chunks are in the original order, and every chunk after the
\* first begins with exactly the last overlap_tokens tokens of its predecessor.
C10_KthWindow ==
    C10_Pre =>
        \A i \in 1..Len(chunks) :
            LET k == i - 1
                lo == k * (max_tokens_per_chunk - overlap_tokens)
                hi == Min(lo + max_tokens_per_chunk, total_tokens)
                c == chunks[i]
            IN  /\ c.start = lo /\ c.end = hi
                /\ c.text = decode(SubSeq(tokens, lo + 1, hi))
                /\ i > 1 =>
                      LET p == chunks[i - 1]
                          pt == encode(p.text)
                          ct == encode(c.text)
                      IN  /\ p.end - c.start = overlap_tokens
                          /\ Len(ct) >= overlap_tokens
                          /\ SubSeq(ct, 1, overlap_tokens)
                               = SubSeq(pt, Len(pt) - overlap_tokens + 1, Len(pt))

C10_Witness ==
    /\ C10_Pre /\ cpc = "returned"
    /\ overlap_tokens >= 1
    /\ Len(chunks) >= 3

(* ---------------------------------------------------------------------- *)
(* Properties of summarize_text_chunks                                     *)
(* ---------------------------------------------------------------------- *)
Range(f) == {f[i] : i \in DOMAIN f}

\* the most recent response before call k that is non-empty (as received, or
\* once stripped), or initial_context when there is none
RECURSIVE LastResponse(_, _, _)
LastResponse(log, k, stripped) ==
    IF k <= 1 THEN initial_context
    ELSE LET e == log[k - 1].llm
             v == IF stripped THEN strip(e.content) ELSE e.content
         IN  IF e.kind = "content" /\ v # <<>> THEN v
             ELSE LastResponse(log, k - 1, stripped)

SummRunning == spc \in {"loop", "returned", "raised"} /\ summ_chunks # <<>>

ReplacedBy(stripped) ==
    SummRunning =>
        /\ spc # "raised" =>
              cumulative_summary
                  = LastResponse(llm_calls, Len(llm_calls) + 1, stripped)
        /\ \A k \in 1..Len(llm_calls) :
              llm_calls[k].user_prompt
                  = current_user_prompt(LastResponse(llm_calls, k, stripped),
                                        summ_chunks[k])
        /\ spc = "returned" =>
              summ_result
                  = <<LastResponse(llm_calls, Len(llm_calls) + 1, stripped)>>

\* C2 as stated: the running summary, the background context of each
\* request and the returned value are exactly the latest non-empty LLM
\* response as it was received.
C2_ExactResponse == ReplacedBy(FALSE)

\* C2, amended: the running summary is replaced, not appended: after each
\* LLM response that is non-empty once stripped of leading and trailing
\* whitespace the running summary is exactly that stripped response; the
\* request for chunk k carries as background context the most recent such
\* stripped response before k (initial_context if none) and the returned
\* value is the last such stripped response.
C2_ReplacedByStripped == ReplacedBy(TRUE)

C2_Witness ==
    /\ spc = "returned"
    /\ Len(llm_calls) = 3
    /\ llm_calls[1].llm.content = <<"A">>
    /\ llm_calls[2].llm.content = <<" ">>
    /\ llm_calls[3].llm.content = <<" ", "B">>
    /\ summ_result = << <<"B">> >>

MarkedUids == UNION {Range(mark_calls[m].uids) : m \in 1..Len(mark_calls)}

SentUids == {send_calls[s].uid : s \in {t \in 1..Len(send_calls) :
                                           send_calls[t].result}}

\* C3: an AuthenticationError from the LLM aborts the whole run: it is the
\* last LLM call of the run, and no later fetched message is chunked,
\* summarized or sent.
C3_AuthAbortsRun ==
    \A j \in 1..Len(llm_calls) :
        llm_calls[j].llm.kind = "AuthenticationError" =>
            /\ j = Len(llm_calls)
            /\ \A i \in 1..Len(outcome) :
                  i > llm_calls[j].msg =>
                      outcome[i] \in {"pending", "SkippedEmptyBody"}
            /\ \A s \in 1..Len(send_calls) :
                  send_calls[s].uid < Fetched[llm_calls[j].msg].uid

\* the per-message failures C5 names
FailureOutcomes == {"OpenAITokenizerError", "RateLimitError", "BadRequestError",
                    "APIConnectionError", "APIError", "Exception", "SendFailed"}

\* C5: a message that failed (tokenizer error, rate limit, bad request,
\* connection or generic LLM error, unexpected error, failed send) is not
\* queued for marking nor marked read, the loop has moved past it without
\* ending the run, and every later message is processed (unless the user
\* interrupts the run at one of them).
C5_Isolation ==
    \A i \in 1..Len(outcome) :
        outcome[i] \in FailureOutcomes =>
            /\ Fetched[i].uid \notin Range(uids_to_mark_read)
            /\ Fetched[i].uid \notin MarkedUids
            /\ idx > i
            /\ exit_status # "exit1"
            /\ pc = "done" =>
                  \A j \in (i + 1)..Len(outcome) :
                      \/ outcome[j] \notin {"pending", "Summarizing"}
                      \/ \E k \in (i + 1)..j : outcome[k] = "KeyboardInterrupt"

C5_Witness ==
    /\ pc = "done"
    /\ Len(outcome) = 2
    /\ outcome[1] = "RateLimitError"
    /\ outcome[2] = "Sent"
    /\ MarkedUids = {Fetched[2].uid}

NotProcessed == {"SkippedEmptyBody", "SkippedNoChunks", "EmptySummary",
                 "AuthenticationError", "KeyboardInterrupt"}
                \cup FailureOutcomes

\* C6: at the end of a run that was not aborted the UIDs passed to
\* mark_emails_as_read are exactly those of the fetched messages whose summary
\* was sent successfully; a skipped or failed message is never marked read.
C6_MarkedExactlySent ==
    /\ (pc = "done" /\ exit_status = "returned") =>
          /\ MarkedUids = SentUids
          /\ MarkedUids = {Fetched[i].uid : i \in {j \in 1..Len(outcome) :
                                                     outcome[j] = "Sent"}}
    /\ \A i \in 1..Len(outcome) :
          outcome[i] \in NotProcessed => Fetched[i].uid \notin MarkedUids

C6_Witness ==
    /\ pc = "done" /\ exit_status = "returned"
    /\ Len(outcome) = 2
    /\ outcome[1] = "Sent"
    /\ outcome[2] \in {"SendFailed", "EmptySummary"}
    /\ MarkedUids = {Fetched[1].uid}

(* ---------------------------------------------------------------------- *)
(* The single-chunk return of chunk_text                                   *)
(* ---------------------------------------------------------------------- *)
ChunkTexts == [i \in 1..Len(chunks) |-> chunks[i].text]

Finished == cpc = "returned" /\ text_body # <<>>

\* C11 as stated: every non-empty text whose token count is at most
\* max_tokens_per_chunk, a count of zero included, comes back as the
\* one-element list holding the text itself.
C11_SingleChunkDownToZero ==
    (Finished /\ Len(encode(text_body)) <= max_tokens_per_chunk) =>
        ChunkTexts = <<text_body>>

\* C11: a non-empty text whose token count is at least 1 and at most
\* max_tokens_per_chunk comes back as the one-element list holding the input
\* text itself, not a decoding of its tokens; a non-empty text with no tokens
\* at all comes back as the empty list.
C11_SingleChunkIsInput ==
    Finished =>
        /\ (Len(encode(text_body)) >= 1
            /\ Len(encode(text_body)) <= max_tokens_per_chunk)
               => ChunkTexts = <<text_body>>
        /\ Len(encode(text_body)) = 0 => chunks = <<>>

C11_Witness ==
    /\ Finished
    /\ Len(encode(text_body)) >= 1
    /\ Len(encode(text_body)) <= max_tokens_per_chunk
    /\ Len(chunks) = 1
    /\ decode(encode(text_body)) # text_body

ScenarioCall ==
    /\ text_body = ScenarioText
    /\ model_name \in KnownModels
    /\ max_tokens_per_chunk = 4
    /\ overlap_tokens = 1

\* C12: with the word tokenizer, chunk_text on the ten-word text "one two
\* three four five six seven eight nine ten" with max_tokens_per_chunk = 4
\* and overlap_tokens = 1 returns exactly the three chunks "one two three
\* four", "four five six seven", "seven eight nine ten", in that order.
C12_BasicScenario ==
    (ScenarioCall /\ cpc = "returned") =>
        ChunkTexts = <<ScenarioChunk1, ScenarioChunk2, ScenarioChunk3>>

C12_Witness ==
    /\ ScenarioCall
    /\ cpc = "returned"
    /\ Len(encode(text_body)) = 10
    /\ Len(chunks) = 3

(* ---------------------------------------------------------------------- *)
(* summarize_text_chunks: no chunks, empty responses, one call per chunk    *)
(* ---------------------------------------------------------------------- *)
SummCalled == spc \in {"loop", "returned", "raised"}

\* C13: called with an empty chunk sequence, summarize_text_chunks returns
\* normally, its value is initial_context unchanged, and no LLM request has
\* been made.
C13_NoChunksNoCall ==
    (SummCalled /\ summ_chunks = <<>>) =>
        /\ spc = "returned"
        /\ summ_error = "none"
        /\ summ_result = <<initial_context>>
        /\ llm_calls = <<>>

C13_Witness ==
    /\ spc = "returned"
    /\ summ_chunks = <<>>
    /\ initial_context = <<"I">>
    /\ summ_result = <<initial_context>>

\* the part of a request's prompt that follows the background context
PromptTail(chunk) ==
    delimiter \o <<"Original text for this chunk: ">>
    \o delimiter \o chunk \o delimiter

PromptHeadLen == Len(current_user_prompt(<<>>, <<>>)) - Len(PromptTail(<<>>))

\* the background context that request k carried
BackgroundOf(k) ==
    LET p == llm_calls[k].user_prompt
    IN  SubSeq(p, PromptHeadLen + 1, Len(p) - Len(PromptTail(summ_chunks[k])))

EmptyResponse(k) ==
    llm_calls[k].llm.kind = "content" /\ llm_calls[k].llm.content = <<>>

\* C14: when the LLM's response for chunk k is empty, the running summary
\* after chunk k is the one request k carried as background, no error is
\* raised, and the loop goes on: the request for chunk k+1 carries that same
\* unchanged summary as its background (after the last chunk it is the
\* value returned).
C14_EmptyResponseKeepsSummary ==
    \A k \in 1..Len(llm_calls) :
        EmptyResponse(k) =>
            /\ k = Len(llm_calls) =>
                  /\ summ_error = "none"
                  /\ summ_i = k
                  /\ cumulative_summary = BackgroundOf(k)
                  /\ spc = (IF k < Len(summ_chunks) THEN "loop" ELSE "returned")
                  /\ spc = "returned" => summ_result = <<BackgroundOf(k)>>
            /\ k < Len(llm_calls) =>
                  /\ llm_calls[k + 1].chunk_no = k + 1
                  /\ llm_calls[k + 1].user_prompt
                        = current_user_prompt(BackgroundOf(k),
                                              summ_chunks[k + 1])

C14_Witness ==
    /\ Len(llm_calls) = 3
    /\ llm_calls[1].llm.content = <<"A">>
    /\ EmptyResponse(2)
    /\ BackgroundOf(3) = <<"A">>
    /\ spc = "returned"
    /\ summ_result = <<<<"A">>>>

NoCallFailed == \A k \in 1..Len(llm_calls) : llm_calls[k].llm.kind = "content"

CallsFollowChunks ==
    (SummCalled /\ NoCallFailed) =>
        /\ spc # "raised"
        /\ Len(llm_calls) = summ_i
        /\ Len(llm_calls) <= Len(summ_chunks)
        /\ spc = "returned" => Len(llm_calls) = Len(summ_chunks)
        /\ \A k \in 1..Len(llm_calls) :
              /\ llm_calls[k].chunk_no = k
              /\ llm_calls[k].user_prompt
                    = current_user_prompt(LastResponse(llm_calls, k, TRUE),
                                          summ_chunks[k])

\* a step issues at most one request, and when it does every earlier
\* response is already folded into the running summary it sends
CallAfterFold ==
    Len(llm_calls') # Len(llm_calls) =>
        /\ Len(llm_calls') = Len(llm_calls) + 1
        /\ NoCallFailed =>
              cumulative_summary
                  = LastResponse(llm_calls, Len(llm_calls) + 1, TRUE)

\* C15: when no call fails, summarize_text_chunks makes exactly one LLM
\* request per chunk, in chunk order: request k carries chunk k's text, the
\* request for chunk k+1 is issued only after the response for chunk k has
\* been received and folded into the running summary, and at the return the
\* number of calls equals the number of chunks.
C15_OneCallPerChunk == []CallsFollowChunks /\ [][CallAfterFold]_vars

C15_Witness ==
    /\ spc = "returned"
    /\ NoCallFailed
    /\ Len(summ_chunks) = 3
    /\ summ_chunks[1] # summ_chunks[2]
    /\ Len(llm_calls) = 3
    /\ llm_calls[1].llm.content = <<"A">>
    /\ llm_calls[2].llm.content = <<" ", "B">>

(* ---------------------------------------------------------------------- *)
(* The order of the steps of a run                                         *)
(* ---------------------------------------------------------------------- *)
Pipeline == <<"extract", "chunk", "summarize", "send">>

\* the steps taken for the message with UID u, in the order taken
StepsFor(u) ==
    LET mine == SelectSeq(steps, LAMBDA s : s.step # "mark" /\ s.uid = u)
    IN  [k \in 1..Len(mine) |-> mine[k].step]

PosOf(u) == CHOOSE i \in 1..Len(Fetched) : Fetched[i].uid = u

StageOf(s) == CHOOSE k \in 1..Len(Pipeline) : Pipeline[k] = s.step

\* the record of steps starts with an extraction; a step is followed by the
\* next stage for the same message, or by the extraction of a message
\* fetched later, or by the marking, which nothing follows
StepsOrdered ==
    /\ steps # <<>> => steps[1].step = "extract"
    /\ \A p \in 1..Len(steps) :
          steps[p].step # "mark" => steps[p].uid \in UidsOf(Fetched)
    /\ \A p \in 1..(Len(steps) - 1) :
          LET a == steps[p]
              b == steps[p + 1]
          IN  /\ a.step # "mark"
              /\ \/ b.step = "mark"
                 \/ b.uid = a.uid /\ StageOf(b) = StageOf(a) + 1
                 \/ b.step = "extract" /\ PosOf(b.uid) > PosOf(a.uid)
    /\ Range(uids_to_mark_read) \subseteq SentUids
    /\ MarkedUids \subseteq SentUids

\* what holds when a step is taken: the step before it has just given a
\* non-empty result, without failing
StepGuarded ==
    Len(steps') > Len(steps) =>
        \A p \in (Len(steps) + 1)..Len(steps') :
            LET s == steps'[p]
            IN  /\ s.step # "mark" => s.uid = Fetched[idx].uid
                /\ s.step = "chunk" =>
                      /\ get_email_content(Fetched[idx]) # <<>>
                      /\ text_body' = get_email_content(Fetched[idx])
                /\ s.step = "summarize" =>
                      /\ cpc' = "returned"
                      /\ chunks' # <<>>
                      /\ summ_chunks' = [k \in 1..Len(chunks') |-> chunks'[k].text]
                /\ s.step = "send" =>
                      /\ spc = "returned"
                      /\ summ_error = "none"
                      /\ summ_result[1] # <<>>
                      /\ send_calls'[Len(send_calls')].body_html = summ_result[1]
                /\ s.step = "mark" =>
                      /\ idx = Len(Fetched) + 1
                      /\ \A i \in 1..Len(outcome) :
                            outcome[i] \notin {"pending", "Summarizing"}
                      /\ Range(uids_to_mark_read) \subseteq SentUids

\* C16: for each fetched message the run extracts, chunks, summarizes and
\* sends, in that order, and starts a step only when the one before gave a
\* non-empty result without failing; the messages are handled one at a time
\* in fetch order; marking as read comes last and only for messages whose
\* send succeeded.
C16_StepsInOrder == []StepsOrdered /\ [][StepGuarded]_vars

C16_Witness ==
    /\ pc = "done"
    /\ Len(Fetched) = 2
    /\ StepsFor(Fetched[1].uid) = Pipeline
    /\ StepsFor(Fetched[2].uid) = Pipeline
    /\ steps[Len(steps)].step = "mark"
    /\ MarkedUids = {Fetched[1].uid, Fetched[2].uid}

(* ---------------------------------------------------------------------- *)
(* Runs on the same mailbox                                                *)
(* ---------------------------------------------------------------------- *)
\* run q started after run r
Later(q, r) == runs[r].order > 0 /\ runs[q].order > runs[r].order

CurrentUid(r) == runs[r].fetched[runs[r].idx].uid

\* C17: when the runs on a mailbox never overlap and a run's marking
\* succeeds, no message whose summary that run sent is fetched by a later
\* run.  (When runs overlap, the state C17_Witness is reached: the same
\* unread message fetched, summarized and sent by two runs, and a message
\* marked read by one run while the other is still summarizing it.)
C17_NoRefetchWithoutOverlap ==
    \A r, q \in RunIds :
        (~overlapped /\ Later(q, r) /\ runs[r].mark = "marked") =>
            runs[r].sent \cap UidsOf(runs[q].fetched) = {}

C17_Witness ==
    \E r, q \in RunIds :
        /\ r # q
        /\ overlapped
        /\ runs[r].sent \cap runs[q].sent # {}
        /\ runs[r].mark = "marked"
        /\ runs[q].pc = "summarizing"
        /\ CurrentUid(q) \in runs[r].sent
        /\ CurrentUid(q) \in seen

(* ---------------------------------------------------------------------- *)
(* From one run to the next                                                *)
(* ---------------------------------------------------------------------- *)
\* at the end of a run every message it skipped or failed is still unread
UnfinishedStillUnread ==
    pc = "done" =>
        \A i \in 1..Len(outcome) :
            outcome[i] \in NotProcessed => Fetched[i].uid \notin seen

\* the fetch of a later run returns every message that is unread
UnreadFetchedAgain ==
    (run > 1 /\ ~fetched_email_data.bound /\ fetched_email_data'.bound) =>
        UidsOf(search_unseen(mailbox, seen)) \subseteq UidsOf(Fetched')

\* the first request made for a message carries no background
StartsFromEmptyContext ==
    pc = "summarizing" =>
        \A k \in 1..Len(llm_calls) :
            (llm_calls[k].msg = idx /\ llm_calls[k].chunk_no = 1) =>
                llm_calls[k].user_prompt
                    = current_user_prompt(<<>>, summ_chunks[1])

\* C18: a message that a run skipped or failed is still unread when that
\* run ends, the fetch of the next run returns it again, and its
\* summarization then starts from the empty initial context.
C18_UnreadAndRetried ==
    /\ []UnfinishedStillUnread
    /\ [][UnreadFetchedAgain]_vars
    /\ []StartsFromEmptyContext

(* ---------------------------------------------------------------------- *)
(* What ends a run                                                         *)
(* ---------------------------------------------------------------------- *)
RunEnded == pc \in {"finally", "done"}

\* the run ended with a fetched message it never handled
EndedEarly ==
    RunEnded /\ \E i \in 1..Len(outcome) : outcome[i] \in {"pending", "Summarizing"}

\* C19: only an authentication failure and a configuration failure abort the
\* whole run.  A configuration failure ends it before any mailbox, LLM or
\* send operation; an authentication failure of the LLM ends it at the
\* message where it happened, the later messages untouched; no other kind of
\* failure (a user's interrupt is not one) ends the run before every fetched
\* message has been handled.
C19_OnlyAuthAndConfigAbort ==
    /\ halted_by = "ConfigError" =>
          /\ RunEnded
          /\ imap_connection = "none"
          /\ ~fetched_email_data.bound
          /\ llm_calls = <<>> /\ send_calls = <<>> /\ mark_calls = <<>>
    /\ \A i \in 1..Len(outcome) :
          outcome[i] = "AuthenticationError" =>
              /\ RunEnded
              /\ idx = i
              /\ \A j \in (i + 1)..Len(outcome) : outcome[j] = "pending"
    /\ (EndedEarly /\ halted_by # "KeyboardInterrupt") =>
          \E i \in 1..Len(outcome) : outcome[i] = "AuthenticationError"

(* ---------------------------------------------------------------------- *)
(* A model name the tokenizer does not know                                 *)
(* ---------------------------------------------------------------------- *)
\* C20: with a model name the tokenizer does not recognise, chunk_text and
\* count_tokens of a non-empty text fail with OpenAITokenizerError and give
\* no chunks; in the run this fails that message only: no LLM request is
\* made for it, nothing is sent, it is not queued for marking nor marked
\* read, and the loop goes on to the next message.
C20_UnknownModelFailsMessage ==
    model_name \notin KnownModels =>
        /\ text_body # <<>> =>
              /\ cpc = "OpenAITokenizerError"
              /\ chunks = <<>>
              /\ count_tokens(text_body, model_name).status
                    = "OpenAITokenizerError"
        /\ llm_calls = <<>>
        /\ send_calls = <<>>
        /\ uids_to_mark_read = <<>>
        /\ mark_calls = <<>>
        /\ \A i \in 1..Len(outcome) :
              /\ get_email_content(Fetched[i]) # <<>> =>
                    outcome[i] \in {"pending", "OpenAITokenizerError"}
              /\ outcome[i] = "OpenAITokenizerError" =>
                    /\ get_email_content(Fetched[i]) # <<>>
                    /\ idx > i
                    /\ halted_by = "none"
              /\ (pc = "done" /\ halted_by = "none") => outcome[i] # "pending"

C20_Witness ==
    /\ model_name \notin KnownModels
    /\ pc = "done"
    /\ exit_status = "returned"
    /\ Len(outcome) = 2
    /\ outcome[1] = "OpenAITokenizerError"
    /\ outcome[2] = "OpenAITokenizerError"
    /\ cpc = "OpenAITokenizerError"


(* ---------------------------------------------------------------------- *)
(* C21                                                                     *)
(* ---------------------------------------------------------------------- *)

\* C21: chunk_text on an empty text returns the empty sequence, for every
\* model name, before any encoding is looked up (so also for a model the
\* tokenizer does not know, whose lookup would raise) and without error;
\* count_tokens on an empty text likewise gives 0 without error.
C21_EmptyTextNoTokenizer ==
    (text_body = <<>> /\ cpc # "call") =>
        /\ cpc = "returned"
        /\ chunks = <<>>
        /\ tokens = <<>>
        /\ count_tokens(text_body, model_name) = [status |-> "ok", value |-> 0]
        /\ \A m \in ModelNames :
              /\ chunk_text(<<>>, m, max_tokens_per_chunk,
                            overlap_tokens).cpc = "returned"
              /\ count_tokens(<<>>, m).status = "ok"

\* an empty text was chunked under a model name the tokenizer rejects
C21_Witness ==
    /\ text_body = <<>>
    /\ model_name \notin KnownModels
    /\ encoding_for_model(model_name) = "KeyError"
    /\ cpc = "returned"
    /\ chunks = <<>>


(* ---------------------------------------------------------------------- *)
(* C22                                                                     *)
(* ---------------------------------------------------------------------- *)

\* the prompt of request k has nothing between the two delimiters of its
\* background context
EmptyBackground(k) ==
    LET p == llm_calls[k].user_prompt
    IN  SubSeq(p, PromptHeadLen + 1, PromptHeadLen + Len(delimiter) + 1)
            = delimiter \o <<"Original text for this chunk: ">>

\* C22: the running summary is not shared between messages: the first
\* request made for every message of a run carries the empty initial
\* context as its background, whatever the earlier messages of the run
\* returned or raised.
C22_FirstRequestHasNoBackground ==
    \A k \in 1..Len(llm_calls) :
        llm_calls[k].chunk_no = 1 => EmptyBackground(k)

\* the second message's first request was made after the first message had
\* left a summary behind
C22_Witness ==
    \E j, k \in 1..Len(llm_calls) :
        /\ llm_calls[j].msg = 1
        /\ llm_calls[j].llm.kind = "content"
        /\ strip(llm_calls[j].llm.content) # <<>>
        /\ llm_calls[k].msg = 2
        /\ llm_calls[k].chunk_no = 1
        /\ cumulative_summary # <<>>


(* ---------------------------------------------------------------------- *)
(* C23                                                                     *)
(* ---------------------------------------------------------------------- *)

\* the request that made summarize_text_chunks raise
FailedCall == llm_calls[Len(llm_calls)].llm

\* C23: every LLM failure of the closed set (connection, rate limit,
\* authentication, bad request, generic API error) leaves
\* summarize_text_chunks as OpenAIAPIError and any other exception raised
\* during the call as OpenAIError; a failed call never ends in a returned
\* summary.
C23_FailuresTyped ==
    /\ spc = "raised" =>
          /\ FailedCall.kind \in APIErrorKinds => summ_error = "OpenAIAPIError"
          /\ FailedCall.kind = "Exception" => summ_error = "OpenAIError"
          /\ summ_result = <<>>
    /\ (llm_calls # <<>> /\ FailedCall.kind \in LLMFailures) =>
          /\ spc = "raised"
          /\ summ_error # "none"


(* ---------------------------------------------------------------------- *)
(* C24                                                                     *)
(* ---------------------------------------------------------------------- *)

\* the chunk that request k was made for
ChunkOf(k) == summ_chunks[llm_calls[k].chunk_no]

\* the delimiter occurs in p at position j
DelimiterAt(p, j) ==
    /\ j + Len(delimiter) - 1 <= Len(p)
    /\ SubSeq(p, j, j + Len(delimiter) - 1) = delimiter

\* a segment of p that opens at position from and whose closing delimiter
\* stands at position close is read unambiguously when no delimiter occurs
\* before close
ClosesAt(p, from, close) ==
    /\ DelimiterAt(p, close)
    /\ \A j \in from..(close - 1) : ~DelimiterAt(p, j)

\* C24: in every LLM request the running summary and the chunk text are
\* each enclosed between two occurrences of the delimiter, and whatever the
\* chunk and the summary contain, the first delimiter after the opening
\* one of a segment is that segment's closing one: content cannot close a
\* segment early or open a new one.
C24_SegmentsUnambiguous ==
    \A k \in 1..Len(llm_calls) :
        LET p == llm_calls[k].user_prompt
            chunk_open == Len(p) - Len(delimiter) - Len(ChunkOf(k)) + 1
            background_close == Len(p) - Len(PromptTail(ChunkOf(k))) + 1
        IN  /\ DelimiterAt(p, PromptHeadLen - Len(delimiter) + 1)
            /\ ClosesAt(p, PromptHeadLen + 1, background_close)
            /\ p[background_close + Len(delimiter)]
                   = "Original text for this chunk: "
            /\ DelimiterAt(p, chunk_open - Len(delimiter))
            /\ ClosesAt(p, chunk_open, Len(p) - Len(delimiter) + 1)


(* ---------------------------------------------------------------------- *)
(* C26                                                                     *)
(* ---------------------------------------------------------------------- *)

\* the server rejected the login: login answered NO or raised
LoginRejected ==
    \E k \in 1..Len(imap_calls) :
        imap_calls[k].call = "login" /\ imap_calls[k].result # "OK"

LogoutCalls == {k \in 1..Len(imap_calls) : imap_calls[k].call = "logout"}

Contains(message, fragment) ==
    \E k \in 1..Len(message) : message[k] = fragment

\* C26: when the IMAP server rejects the login, connect_to_imap fails with
\* EmailConnectionError whose message contains "IMAP login failed" and the
\* server's response text, and logout has been called exactly once on the
\* connection by the time the error is raised.
C26_LoginFailureLogsOut ==
    LoginRejected =>
        /\ halted_by = "EmailConnectionError"
        /\ imap_connection = "none"
        /\ Contains(connect_error, "IMAP login failed for user ")
        /\ Contains(connect_error, ServerResponse)
        /\ Cardinality(LogoutCalls) = 1


(* ---------------------------------------------------------------------- *)
(* C25                                                                     *)
(* ---------------------------------------------------------------------- *)

\* the call named c was made on the SMTP object and succeeded
SmtpOk(c) ==
    \E k \in 1..Len(smtp_calls) :
        smtp_calls[k].call = c /\ smtp_calls[k].result = "ok"

QuitCalls == {k \in 1..Len(smtp_calls) : smtp_calls[k].call = "quit"}

\* C25: send_email returns True exactly when the SMTP connection, login
\* and send_message all succeeded; on every failure the except clauses name
\* it returns False and does not raise; and whenever the SMTP object was
\* created, quit has been called on it exactly once, as the last call, by
\* the time send_email returns (and never before its finally block).
C25_SendResultAndQuit ==
    /\ send_pc = "done" =>
          /\ send_returned = "True" <=>
                (smtp # "None" /\ SmtpOk("login") /\ SmtpOk("send_message"))
          /\ send_caught \in SMTPFailures => send_returned = "False"
          /\ smtp # "None" =>
                /\ Cardinality(QuitCalls) = 1
                /\ smtp_calls[Len(smtp_calls)].call = "quit"
          /\ smtp = "None" => smtp_calls = <<>>
    /\ send_pc \notin {"done", "idle"} => QuitCalls = {}

\* the login was refused on a STARTTLS connection: False was returned after
\* one quit
C25_Witness ==
    /\ send_pc = "done"
    /\ port = 587
    /\ SmtpOk("starttls")
    /\ send_caught = "SMTPAuthenticationError"
    /\ send_returned = "False"
    /\ Cardinality(QuitCalls) = 1


(* ---------------------------------------------------------------------- *)
(* C27                                                                     *)
(* ---------------------------------------------------------------------- *)

\* what the file holds under the key that was asked for
Entry == config_file.data[key_name]

Returned(v) == [status |-> "returned", value |-> v]

\* C27: with the file read as a JSON object, load_key_from_config_file
\* gives the configured value when the key is present and not null;
\* otherwise the default when a non-null default was given; otherwise
\* ConfigError when is_critical; otherwise None.  A key whose value is null
\* gets the result an absent key gets, and a critical key with a default
\* never raises for absence.
C27_KeyResolution ==
    (cfg_pc = "key_done" /\ config_file.status = "object") =>
        /\ Entry \notin {"absent", "null"} => key_result = Returned(Entry)
        /\ Entry \in {"absent", "null"} =>
              /\ default # None => key_result = Returned(default)
              /\ (default = None /\ is_critical) =>
                     key_result.status = "ConfigError"
              /\ (default = None /\ ~is_critical) =>
                     key_result = Returned(None)
        /\ Entry = "null" =>
              key_result = load_key_from_config_file(
                               [config_file EXCEPT !.data[key_name] = "absent"],
                               key_name, default, is_critical)
        /\ (is_critical /\ default # None) => key_result.status = "returned"

\* a critical key that is null in the file was asked for with a default
C27_Witness ==
    /\ cfg_pc = "key_done"
    /\ config_file.status = "object"
    /\ Entry = "null"
    /\ is_critical
    /\ default = "d"
    /\ key_result = Returned("d")

(* ---------------------------------------------------------------------- *)
(* C28                                                                     *)
(* ---------------------------------------------------------------------- *)

\* the file cannot give a value for every critical key
CriticalMissing ==
    \/ config_file.status # "object"
    \/ \E k \in CriticalKeys : dict_get(config_file.data, k) = None

\* the configuration built so far holds a value that is not None for k
Loaded(k) ==
    \E i \in 1..Len(configs) : configs[i].key = k /\ configs[i].value # None

BodiesOf(type) ==
    SelectSeq(msg.parts,
              LAMBDA p : p.content_type = type /\ ~p.attachment)

UsableBodies(type) ==
    SelectSeq(msg.parts,
              LAMBDA p : /\ p.content_type = type
                         /\ p.decodable
                         /\ msg.multipart => ~p.attachment)

FirstBody(type) ==
    IF UsableBodies(type) = <<>> THEN <<>> ELSE UsableBodies(type)[1].payload

SentInFetchOrder ==
    LET sent == SelectSeq([i \in 1..Len(Fetched) |-> i],
                          LAMBDA i : outcome[i] = "Sent")
    IN  [k \in 1..Len(sent) |-> Fetched[sent[k]].uid]

\* every fetched message has been dealt with
AllProcessed ==
    /\ idx = Len(Fetched) + 1
    /\ \A i \in 1..Len(outcome) : outcome[i] \notin {"pending", "Summarizing"}

\* C30: mark_emails_as_read is invoked at most once per run, only after the
\* last fetched message has finished processing (it is the last step of the
\* run), with the UIDs of the successfully sent messages in fetch order; it
\* is not invoked when nothing was sent; and whether it succeeds or fails,
\* the run goes on to its normal end.
C30_MarkOnceAfterAll ==
    /\ Len(mark_calls) <= 1
    /\ mark_calls # <<>> =>
          /\ pc \in {"finally", "done"}
          /\ AllProcessed
          /\ steps[Len(steps)].step = "mark"
          /\ mark_calls[1].uids = SentInFetchOrder
          /\ mark_calls[1].uids # <<>>
          /\ halted_by = "none"
          /\ pc = "done" => exit_status = "returned" /\ logouts = 1
    /\ (pc \in {"finally", "done"} /\ SentUids = {}) => mark_calls = <<>>
    /\ (pc \in {"finally", "done"} /\ fetched_email_data.bound
          /\ AllProcessed /\ SentUids # {}) => Len(mark_calls) = 1

\* two summaries were sent, the marking call failed, and the run ended as a
\* run whose marking succeeded does
C30_Witness ==
    /\ pc = "done"
    /\ Len(mark_calls) = 1
    /\ ~mark_calls[1].result
    /\ Len(mark_calls[1].uids) = 2
    /\ exit_status = "returned"
    /\ logouts = 1


(* ---------------------------------------------------------------------- *)
(* C31: one logout per established connection, nothing after it           *)
(* ---------------------------------------------------------------------- *)

\* connect_to_imap returned the connection to main_process
Established == imap_connection # "none"

\* the mailbox operations of the run: the fetch and the STORE of the marks
MailboxOps == <<fetched_email_data, mark_calls, seen>>

\* C31: once connect_to_imap has returned the connection, the run ends,
\* however it ends, with exactly one logout of that connection, there is
\* never a second logout, and after the logout the run neither fetches nor
\* marks
C31_LogoutOnceAndLast ==
    /\ [](/\ logouts <= 1
          /\ (pc = "done" /\ Established) => logouts = 1
          /\ logouts = 1 => imap_connection = "closed" /\ pc = "done")
    /\ [][logouts = 1 /\ run' = run => UNCHANGED MailboxOps]_vars

\* a run interrupted from the keyboard while a message was being summarized
\* has ended, logged out
C31_Witness ==
    /\ pc = "done"
    /\ halted_by = "KeyboardInterrupt"
    /\ Established
    /\ logouts = 1


(* ---------------------------------------------------------------------- *)
(* C32: exit status of the abort paths, and the finally block             *)
(* ---------------------------------------------------------------------- *)

\* the status the except clauses of lines 216-235 pass to sys.exit
IntendedExit(handler) ==
    IF handler = "KeyboardInterrupt" THEN "exit0" ELSE "exit1"

\* C32: a run that was aborted ends with the exit status of the except
\* clause that handled the abort, and the finally block raises nothing,
\* also when the run was aborted before fetch_emails returned
C32_AbortsExitAsIntended ==
    pc = "done" =>
        /\ exit_status # "UnboundLocalError"
        /\ halted_by # "none" => exit_status = IntendedExit(halted_by)


(* ---------------------------------------------------------------------- *)
(* C33: a message whose summary came back empty                           *)
(* ---------------------------------------------------------------------- *)

\* the answers the LLM gave for message i
AnswersFor(i) ==
    {llm_calls[k].llm : k \in {j \in 1..Len(llm_calls) : llm_calls[j].msg = i}}

\* summarize_text_chunks returned the empty summary for message i
EmptySummaryAt(i) == i \in 1..Len(outcome) /\ outcome[i] = "EmptySummary"

\* the empty summary is what is left when every answer was empty; no email
\* is sent for the message and its UID is not queued for marking
EmptySummaryNotSentNotMarked ==
    \A i \in 1..Len(outcome) :
        EmptySummaryAt(i) =>
            /\ \A a \in AnswersFor(i) :
                   a.kind = "content" /\ strip(a.content) = <<>>
            /\ \A s \in 1..Len(send_calls) :
                   send_calls[s].uid # Fetched[i].uid
            /\ \A k \in 1..Len(uids_to_mark_read) :
                   uids_to_mark_read[k] # Fetched[i].uid
            /\ \A k \in 1..Len(mark_calls) :
                   \A j \in 1..Len(mark_calls[k].uids) :
                       mark_calls[k].uids[j] # Fetched[i].uid

\* the message is unread when the run is over
EmptySummaryStillUnread ==
    pc = "done" =>
        \A i \in 1..Len(outcome) :
            EmptySummaryAt(i) => Fetched[i].uid \notin seen

\* C33: a message whose summary came back empty (every answer of the LLM
\* for its chunks was empty) is treated as failed: no email is sent for it,
\* it is not marked read, it is unread when the run ends, and the fetch of
\* the next run returns every unread message, so it is summarized again
C33_EmptySummaryRetried ==
    /\ []EmptySummaryNotSentNotMarked
    /\ []EmptySummaryStillUnread
    /\ [][UnreadFetchedAgain]_vars


(* ---------------------------------------------------------------------- *)
(* C34: nothing is done twice within a run                                *)
(* ---------------------------------------------------------------------- *)

\* the entries of the run's record that are step `kind` on message `uid`
StepCount(kind, uid) ==
    Cardinality({k \in 1..Len(steps) :
                    steps[k].step = kind /\ steps[k].uid = uid})

\* the requests made to the LLM for chunk c of message i
RequestCount(i, c) ==
    Cardinality({k \in 1..Len(llm_calls) :
                    llm_calls[k].msg = i /\ llm_calls[k].chunk_no = c})

\* the calls of send_email for message `uid`
SendCount(uid) ==
    Cardinality({s \in 1..Len(send_calls) : send_calls[s].uid = uid})

\* no UID occurs twice in the fetch result
FetchedOnceEach ==
    \A i, j \in 1..Len(Fetched) : Fetched[i].uid = Fetched[j].uid => i = j

\* once fetch_emails has returned, the run does not fetch again
FetchedOncePerRun ==
    (fetched_email_data.bound /\ run' = run) => UNCHANGED fetched_email_data

\* C34: within one run the mailbox is fetched at most once, every fetched
\* message is extracted, chunked and summarized at most once, the LLM is
\* called at most once for each chunk of a message, and send_email is called
\* at most once for a fetched message
C34_NothingTwice ==
    /\ [](/\ FetchedOnceEach
          /\ \A i \in 1..Len(Fetched) :
                /\ \A kind \in {"extract", "chunk", "summarize", "send"} :
                       StepCount(kind, Fetched[i].uid) <= 1
                /\ SendCount(Fetched[i].uid) <= 1
                /\ \A c \in 1..MaxTextLen : RequestCount(i, c) <= 1)
    /\ [][FetchedOncePerRun]_vars

\* a run has ended in which two messages were each summarized in more than
\* one request and each sent once
C34_Witness ==
    /\ pc = "done"
    /\ Len(Fetched) = 2
    /\ \A i \in 1..2 : /\ SendCount(Fetched[i].uid) = 1
                       /\ RequestCount(i, 1) = 1
                       /\ RequestCount(i, 2) = 1


(* ---------------------------------------------------------------------- *)
(* C35: how many chunks, and how long                                     *)
(* ---------------------------------------------------------------------- *)

\* chunk_text has returned from its loop, called with sensible parameters
C35_Pre ==
    /\ cpc = "returned"
    /\ total_tokens > max_tokens_per_chunk
    /\ max_tokens_per_chunk >= 1
    /\ 0 <= overlap_tokens /\ overlap_tokens < max_tokens_per_chunk

\* C35: for total_tokens T > max_tokens_per_chunk M >= 1 and
\* 0 <= overlap_tokens O < M, chunk_text returns ceil((T - M) / (M - O)) + 1
\* chunks; each has exactly M tokens, except that the last has between O + 1
\* and M tokens
C35_ChunkCount ==
    C35_Pre =>
        /\ Len(chunks) = CeilDiv(total_tokens - max_tokens_per_chunk,
                                 max_tokens_per_chunk - overlap_tokens) + 1
        /\ \A i \in 1..(Len(chunks) - 1) :
               Len(chunks[i].chunk_tokens) = max_tokens_per_chunk
        /\ Len(chunks[Len(chunks)].chunk_tokens) >= overlap_tokens + 1
        /\ Len(chunks[Len(chunks)].chunk_tokens) <= max_tokens_per_chunk

\* a text cut into chunks that overlap where the division is not exact: the
\* last chunk is shorter than the others
C35_Witness ==
    /\ C35_Pre
    /\ overlap_tokens >= 1
    /\ (total_tokens - max_tokens_per_chunk)
           % (max_tokens_per_chunk - overlap_tokens) # 0
    /\ Len(chunks[Len(chunks)].chunk_tokens) < max_tokens_per_chunk


(* ---------------------------------------------------------------------- *)
(* C36: chunk_text with parameters nobody validated                       *)
(* ---------------------------------------------------------------------- *)

\* the token positions (from 1) that the slice tokens[c.start:c.end] holds
WindowOf(c) ==
    {j \in 1..total_tokens :
        /\ PySliceIndex(c.start, total_tokens) < j
        /\ j <= PySliceIndex(c.end, total_tokens)}

\* every token of the text is in the window of some chunk
EveryTokenCovered ==
    \A j \in 1..total_tokens : \E i \in 1..Len(chunks) : j \in WindowOf(chunks[i])

\* C36: whatever integers max_tokens_per_chunk and overlap_tokens are (zero
\* and negative ones included), the loop of chunk_text makes at most one pass
\* per token and so terminates, and what it returns are non-empty chunks
\* whose token windows together hold every token of the text
C36_AnyParametersCover ==
    Tokenized =>
        /\ Len(chunks) <= total_tokens
        /\ cpc = "returned" =>
              /\ \A i \in 1..Len(chunks) : chunks[i].chunk_tokens # <<>>
              /\ EveryTokenCovered


(* ---------------------------------------------------------------------- *)
(* C37: what fetch_emails returns and when it raises                      *)
(* ---------------------------------------------------------------------- *)

\* the answers to the single-UID fetches made so far
UidAnswers == {fetch_log[k] : k \in 2..Len(fetch_log)}

\* the UIDs whose fetch was answered with the message
OkUids == {a.uid : a \in {b \in UidAnswers : b.typ = "OK"}}

\* the search was made and failed
SearchFailed == fetch_log # <<>> /\ fetch_log[1].typ # "OK"

\* the search was made and found nothing
SearchFoundNone ==
    fetch_log # <<>> /\ fetch_log[1].typ = "OK" /\ email_uids_list = <<>>

\* the UIDs found whose fetch has been made
Visited == SubSeq(email_uids_list, 1, Len(fetch_log) - 1)

\* the list holds, in search order, the UIDs visited whose fetch gave the
\* message, and nothing else
HoldsTheFetched ==
    messages_data = SelectSeq(Visited, LAMBDA m : m.uid \in OkUids)

\* the call has ended by returning, or goes on, after every UID visited
GoesOn == fetch_pc \in {"loop", "returned"}

\* C37 as stated: fetch_emails raises EmailFetchingError when the search
\* fails and returns the empty list when the search finds nothing; a UID
\* whose fetch fails is skipped and nothing else is: the call goes on and
\* what it returns are the pairs of the other UIDs found, in search order
C37_FailedFetchSkipsOne ==
    /\ SearchFailed => fetch_pc = "EmailFetchingError"
    /\ SearchFoundNone => fetch_pc = "returned" /\ messages_data = <<>>
    /\ (\E a \in UidAnswers : a.typ # "OK") => GoesOn /\ HoldsTheFetched
    /\ fetch_pc = "returned" =>
          /\ HoldsTheFetched
          /\ Visited = email_uids_list

\* C37, amended: fetch_emails raises EmailFetchingError when the search
\* fails and returns the empty list when the search finds nothing; a UID
\* whose fetch is answered without raising but not with OK and a message is
\* skipped and nothing else is, while an exception raised by the fetch of a
\* UID ends the call with EmailFetchingError, nothing being returned; what
\* is returned are the pairs of the UIDs found whose fetch gave the
\* message, in search order
C37_NotOkSkipsOneRaiseEndsAll ==
    /\ SearchFailed => fetch_pc = "EmailFetchingError"
    /\ SearchFoundNone => fetch_pc = "returned" /\ messages_data = <<>>
    /\ (/\ fetch_log # <<>> /\ ~SearchFailed
        /\ \A a \in UidAnswers : a.typ # "IMAP4.error") =>
          GoesOn /\ HoldsTheFetched
    /\ (\E a \in UidAnswers : a.typ = "IMAP4.error") =>
          /\ fetch_pc = "EmailFetchingError"
          /\ fetch_log[Len(fetch_log)].typ = "IMAP4.error"
    /\ fetch_pc = "returned" =>
          /\ HoldsTheFetched
          /\ Visited = email_uids_list

\* the search found two messages; the fetch of the first was answered NO,
\* the second was fetched, and the call returned the second alone
C37_Witness ==
    /\ fetch_pc = "returned"
    /\ Len(email_uids_list) = 2
    /\ fetch_log[2].typ = "NO"
    /\ fetch_log[3].typ = "OK"
    /\ messages_data = <<email_uids_list[2]>>

====
